---- MODULE Spec2Model ----
(***************************************************************************)
(* A model of the element core of mkgraphic: the button interaction state  *)
(* machine (element/button.rs), the focus protocol of Composite            *)
(* (element/composite.rs), the linear tile layout and its offset cache     *)
(* (element/tile.rs) and the grid layout and its column/row caches         *)
(* (element/grid.rs).                                                      *)
(*                                                                         *)
(* f32 quantities are modelled as exact rationals [n, d] in lowest terms   *)
(* with d > 0: the layout formulas divide (stretch / total_stretch), so    *)
(* integers would not do; rounding of f32 is not modelled.                 *)
(***************************************************************************)
EXTENDS Integers, Sequences, FiniteSets, TLC

VARIABLES
    \* BasicButton (button.rs:28-37)
    btnState,       \* state: RwLock<ButtonState>
    btnEnabled,     \* enabled: bool
    btnOnClick,     \* on_click.is_some()
    btnLog,         \* history: one record per event delivered to the button
    \* Composite (composite.rs:108-117)
    children,       \* children: Vec<ElementPtr>, each child by its wants_focus()
    focus_index,    \* focus_index: Option<usize>
    saved_focus,    \* saved_focus: Option<usize>
    cached_bounds,  \* cached_bounds: Vec<Rect>
    compLast,       \* history: the last operation and the focus indices around it
    \* VTile / HTile (tile.rs:14-17, 251-254)
    tileAxis,       \* "V" for VTile, "H" for HTile
    tileChildren,   \* inner.children, each child by its limits and stretch
    tiles,          \* tiles: RwLock<Vec<f32>>
    tileCall,       \* history: the last bounds_of call, its context and result
    tileLaid,       \* history: the bounds the cached offsets were computed for
    tileHit,        \* history: the last hit test or click and the children it reached
    \* Grid (grid.rs:12-19)
    gridChildren,   \* inner.children
    columns,        \* columns: usize
    col_widths,     \* col_widths: RwLock<Vec<f32>>
    row_heights,    \* row_heights: RwLock<Vec<f32>>
    gridCall,       \* history: the last bounds_of call, its context and result
    gridLaid,       \* history: the bounds and child count the caches were computed for
    \* The locks of a widget while it handles a click (button.rs, slider.rs, list.rs)
    lkWidget,       \* which widget handles the events
    lkOps,          \* the lock operations and callback the running handler has left
    lkHeld,         \* the guards the handling thread holds, as <<lock, mode>>
    lkBlocked,      \* the thread waits for a lock it holds itself
    lkCalls,        \* history: the calls callbacks made into the widget
    \* One element driven through click and a twin through handle_click
    entKind,        \* the element's type
    entViaClick,    \* the instance that receives the events through click
    entViaHandle,   \* the instance that receives them through handle_click
    entLog,         \* history: per event, what each entry point returned
    \* Layer (layer.rs:14-16)
    layerChildren,  \* inner.children, each child by its kind
    layerCall,      \* history: the last operation and what hit_test returned
    \* Deck (layer.rs:203-206)
    deckChildren,   \* inner.children
    active_index,   \* active_index: usize
    deckCall,       \* history: the last operation and the children it called into
    \* A proxy around a BasicButton (proxy.rs, align.rs, size.rs, margin.rs)
    pxKind,         \* the proxy's type
    pxMargin,       \* margin: Margin (MarginElement only)
    pxSize,         \* width, height / min_* / max_* (FixedSize, MinSize, MaxSize only)
    pxAlign,        \* align: f32 (HAlign, VAlign only)
    pxSubject,      \* subject: the button's state and enabled flag
    pxCall,         \* history: the last call and what it passed to the subject
    pxDrawn,        \* history: the last draw, its context and margin
    \* A container asked for its limits (composite.rs, tile.rs, grid.rs, layer.rs)
    lmKind,         \* the container's type
    lmChildren,     \* its children, each by its limits
    lmColumns,      \* columns: usize (Grid only)
    lmCall,         \* history: the last limits() call and its result
    \* A container of buttons traversed within a frame (composite.rs, tile.rs)
    frKind,         \* the container's type
    frEnabled,      \* inner.enabled: what the container's is_enabled() answers
    frButtons,      \* the children, each a BasicButton by its state
    frCached,       \* inner.cached_bounds: Vec<Rect>
    frTiles,        \* tiles: RwLock<Vec<f32>> (VTile, HTile)
    frDrawn,        \* history: the last draw since the tree changed
    frCall,         \* history: the last traversal and the context each child got
    \* Checkbox / SlideSwitch (checkbox.rs:28-38, switch.rs:26-36)
    ckState,        \* state: RwLock<CheckboxState>
    ckEnabled,      \* enabled: bool
    ckChecked,      \* checked: RwLock<bool> (on: RwLock<bool> of the switch)
    ckOnChange,     \* on_change.is_some()
    ckLog,          \* history: one record per click event delivered
    \* One BasicButton or Checkbox clicked from several threads at once
    rcWidget,       \* the widget's type
    rcState,        \* state: RwLock<ButtonState> / RwLock<CheckboxState>
    rcChecked,      \* checked: RwLock<bool> (Checkbox only)
    rcFired,        \* history: how often the callback (or toggle) has run
    rcEvent,        \* per thread, the click event its handle_click was given
    rcPc,           \* per thread, where its handle_click stands
    \* One List whose set_selected and remove_item run on several threads
    liLen,          \* items.len() (items: RwLock<Vec<ListItem>>)
    liSelected,     \* selected: RwLock<Vec<usize>>
    liOp,           \* per thread, the method it calls and its index
    liPc,           \* per thread, where its call stands
    liHeld,         \* the guards held: records of thread, lock and mode
    \* One TextBox (text_box.rs)
    tbText,         \* text: the characters of the String, in order
    tbCursor,       \* cursor_pos
    tbSelection,    \* selection_start, None when there is none
    tbState,        \* state: TextBoxState
    tbEnabled       \* enabled

btnVars  == <<btnState, btnEnabled, btnOnClick, btnLog>>
compVars == <<children, focus_index, saved_focus, cached_bounds, compLast>>
tileVars == <<tileAxis, tileChildren, tiles, tileCall, tileLaid, tileHit>>
gridVars == <<gridChildren, columns, col_widths, row_heights, gridCall, gridLaid>>
lockVars == <<lkWidget, lkOps, lkHeld, lkBlocked, lkCalls>>
entryVars == <<entKind, entViaClick, entViaHandle, entLog>>
layerVars == <<layerChildren, layerCall>>
deckVars == <<deckChildren, active_index, deckCall>>
proxyVars == <<pxKind, pxMargin, pxSize, pxAlign, pxSubject, pxCall, pxDrawn>>
limitVars == <<lmKind, lmChildren, lmColumns, lmCall>>
frameVars == <<frKind, frEnabled, frButtons, frCached, frTiles, frDrawn, frCall>>
checkVars == <<ckState, ckEnabled, ckChecked, ckOnChange, ckLog>>
raceVars == <<rcWidget, rcState, rcChecked, rcFired, rcEvent, rcPc>>
listVars == <<liLen, liSelected, liOp, liPc, liHeld>>
textVars == <<tbText, tbCursor, tbSelection, tbState, tbEnabled>>
vars     == <<btnVars, compVars, tileVars, gridVars, lockVars, entryVars,
              layerVars, deckVars, proxyVars, limitVars, frameVars, checkVars, raceVars, listVars, textVars>>
\* what an operation of one component leaves alone: the other components
btnOthers  == <<compVars, tileVars, gridVars, lockVars, entryVars,
               layerVars, deckVars, proxyVars, limitVars, frameVars, checkVars, raceVars, listVars, textVars>>
compOthers == <<btnVars, tileVars, gridVars, lockVars, entryVars,
               layerVars, deckVars, proxyVars, limitVars, frameVars, checkVars, raceVars, listVars, textVars>>
tileOthers == <<btnVars, compVars, gridVars, lockVars, entryVars,
               layerVars, deckVars, proxyVars, limitVars, frameVars, checkVars, raceVars, listVars, textVars>>
gridOthers == <<btnVars, compVars, tileVars, lockVars, entryVars,
               layerVars, deckVars, proxyVars, limitVars, frameVars, checkVars, raceVars, listVars, textVars>>
lockOthers == <<btnVars, compVars, tileVars, gridVars, entryVars,
               layerVars, deckVars, proxyVars, limitVars, frameVars, checkVars, raceVars, listVars, textVars>>
entryOthers == <<btnVars, compVars, tileVars, gridVars, lockVars,
               layerVars, deckVars, proxyVars, limitVars, frameVars, checkVars, raceVars, listVars, textVars>>
layerOthers == <<btnVars, compVars, tileVars, gridVars, lockVars, entryVars,
                deckVars, proxyVars, limitVars, frameVars, checkVars, raceVars, listVars, textVars>>
deckOthers == <<btnVars, compVars, tileVars, gridVars, lockVars, entryVars,
               layerVars, proxyVars, limitVars, frameVars, checkVars, raceVars, listVars, textVars>>
proxyOthers == <<btnVars, compVars, tileVars, gridVars, lockVars, entryVars,
                layerVars, deckVars, limitVars, frameVars, checkVars, raceVars, listVars, textVars>>
limitOthers == <<btnVars, compVars, tileVars, gridVars, lockVars, entryVars, layerVars, deckVars, proxyVars, frameVars, checkVars, raceVars, listVars, textVars>>
frameOthers == <<btnVars, compVars, tileVars, gridVars, lockVars, entryVars, layerVars, deckVars, proxyVars, limitVars, checkVars, raceVars, listVars, textVars>>
checkOthers == <<btnVars, compVars, tileVars, gridVars, lockVars, entryVars, layerVars, deckVars, proxyVars, limitVars, frameVars, raceVars, listVars, textVars>>
raceOthers == <<btnVars, compVars, tileVars, gridVars, lockVars, entryVars, layerVars, deckVars, proxyVars, limitVars, frameVars, checkVars, listVars, textVars>>
listOthers == <<btnVars, compVars, tileVars, gridVars, lockVars, entryVars, layerVars, deckVars, proxyVars, limitVars, frameVars, checkVars, raceVars, textVars>>
textOthers == <<btnVars, compVars, tileVars, gridVars, lockVars, entryVars, layerVars, deckVars, proxyVars, limitVars, frameVars, checkVars, raceVars, listVars>>

(***************************************************************************)
(* Bounds of the model.                                                    *)
(***************************************************************************)
MaxEvents == 3
MaxChildren == 4
MaxTileChildren == 3
MaxGridChildren == 4

(***************************************************************************)
(* Exact rational arithmetic standing for f32.                             *)
(***************************************************************************)
Abs(i) == IF i < 0 THEN -i ELSE i

RECURSIVE Gcd(_, _)
Gcd(a, b) == IF b = 0 THEN a ELSE Gcd(b, a % b)

Norm(n, d) ==
    LET g == Gcd(Abs(n), Abs(d))
        s == IF d < 0 THEN -1 ELSE 1
    IN  [n |-> s * (n \div g), d |-> s * (d \div g)]

R(i) == [n |-> i, d |-> 1]
RAdd(a, b) == Norm(a.n * b.d + b.n * a.d, a.d * b.d)
RSub(a, b) == Norm(a.n * b.d - b.n * a.d, a.d * b.d)
RMul(a, b) == Norm(a.n * b.n, a.d * b.d)
\* only used with b > 0 (the code guards every division by total_stretch > 0.0)
RDiv(a, b) == Norm(a.n * b.d, a.d * b.n)
RLe(a, b) == a.n * b.d <= b.n * a.d
RLt(a, b) == a.n * b.d < b.n * a.d
RMin(a, b) == IF RLe(a, b) THEN a ELSE b
RMax(a, b) == IF RLe(a, b) THEN b ELSE a

RECURSIVE RSum(_)
RSum(s) == IF s = <<>> THEN R(0) ELSE RAdd(Head(s), RSum(Tail(s)))

\* Option<usize>::None
None == -1

(***************************************************************************)
(* Geometry (support/point.rs, support/rect.rs).                           *)
(***************************************************************************)
Pt(x, y) == [x |-> R(x), y |-> R(y)]
MkRect(l, t, r, b) == [left |-> l, top |-> t, right |-> r, bottom |-> b]
RectZero == MkRect(R(0), R(0), R(0), R(0))
Width(r) == RSub(r.right, r.left)
Height(r) == RSub(r.bottom, r.top)
Contains(r, p) ==
    /\ RLe(r.left, p.x) /\ RLe(p.x, r.right)
    /\ RLe(r.top, p.y) /\ RLe(p.y, r.bottom)

\* element/mod.rs:32 has 1e30; any value above every size of the model serves.
FULL_EXTENT == 1000000

(***************************************************************************)
(* BasicButton (element/button.rs).                                        *)
(***************************************************************************)
ButtonStates == {"Normal", "Hover", "Pressed", "Disabled"}
MouseButtonKinds == {"Left", "Middle", "Right"}
CursorTrackings == {"Entering", "Hovering", "Leaving"}

\* The rectangle the button is given (ctx.bounds) and the pointer positions
\* tried: well inside, on the bottom-right corner, outside.
BtnBounds == MkRect(R(10), R(10), R(30), R(20))
BtnPoints == {Pt(20, 15), Pt(30, 20), Pt(40, 15)}

\* handle_click's return value: false on the early return, true otherwise.
ButtonHandles(enabled, btn) == ~(~enabled \/ btn.button # "Left")

\* A handle_click whose release ignores the pointer position.
ButtonAfterClickNoHover(state, enabled, bounds, btn) ==
    IF ~ButtonHandles(enabled, btn) THEN state
    ELSE IF btn.down THEN "Pressed"
    ELSE "Normal"

\* The state handle_click leaves in self.state.
ButtonAfterClick(state, enabled, bounds, btn) ==
    IF ~ButtonHandles(enabled, btn) THEN state
    ELSE IF btn.down THEN "Pressed"
    ELSE IF state = "Pressed"
         THEN (IF Contains(bounds, btn.pos) THEN "Hover" ELSE "Normal")
         ELSE (IF Contains(bounds, btn.pos) THEN "Hover" ELSE "Normal")

\* How many times handle_click invokes the on_click callback.
ButtonFires(state, enabled, onClick, btn) ==
    IF ~ButtonHandles(enabled, btn) THEN 0
    ELSE IF btn.down THEN 0
    ELSE IF state = "Pressed" /\ onClick THEN 1
    ELSE 0

\* The state a callback reading state() observes: the write guard is dropped
\* and the callback runs before the state is written again.
ButtonSeenByCallback(state, enabled, onClick, btn) ==
    IF ButtonFires(state, enabled, onClick, btn) = 1 THEN state ELSE "none"

\* A cursor() that keeps the state when the pointer leaves.
ButtonAfterCursorKeepsOnLeave(state, enabled, status) ==
    IF ~enabled THEN state
    ELSE IF status \in {"Entering", "Hovering"}
         THEN (IF state # "Pressed" THEN "Hover" ELSE state)
         ELSE state

\* The state cursor() leaves in self.state.
ButtonAfterCursor(state, enabled, status) ==
    IF ~enabled THEN state
    ELSE IF status \in {"Entering", "Hovering"}
         THEN (IF state # "Pressed" THEN "Hover" ELSE state)
         ELSE (IF state # "Pressed" THEN "Normal" ELSE state)

\* An enable() whose enable(true) does not touch the state.
ButtonAfterEnableKeeps(state, flag) ==
    IF ~flag THEN "Disabled" ELSE state

\* The state enable() leaves in self.state.
ButtonAfterEnable(state, flag) ==
    IF ~flag THEN "Disabled"
    ELSE IF state = "Disabled" THEN "Normal"
    ELSE state

NoPos == Pt(0, 0)

BtnEvent(ev, down, button, pos, status, flag, pre, post, fired, seen, ret) ==
    [ev |-> ev, down |-> down, button |-> button, pos |-> pos, status |-> status,
     flag |-> flag, pre |-> pre, post |-> post, fired |-> fired, seen |-> seen,
     ret |-> ret]

\* click() delegates to handle_click(), so one action stands for both.
BtnHandleClick(btn) ==
    /\ Len(btnLog) < MaxEvents
    /\ btnState' = ButtonAfterClick(btnState, btnEnabled, BtnBounds, btn)
    /\ btnLog' = Append(btnLog,
          BtnEvent("click", btn.down, btn.button, btn.pos, "none", FALSE,
                   btnState, btnState',
                   ButtonFires(btnState, btnEnabled, btnOnClick, btn),
                   ButtonSeenByCallback(btnState, btnEnabled, btnOnClick, btn),
                   ButtonHandles(btnEnabled, btn)))
    /\ UNCHANGED <<btnEnabled, btnOnClick, btnOthers>>

\* cursor() does not read its point argument.
BtnCursor(status) ==
    /\ Len(btnLog) < MaxEvents
    /\ btnState' = ButtonAfterCursor(btnState, btnEnabled, status)
    /\ btnLog' = Append(btnLog,
          BtnEvent("cursor", FALSE, "none", NoPos, status, FALSE,
                   btnState, btnState', 0, "none", btnEnabled))
    /\ UNCHANGED <<btnEnabled, btnOnClick, btnOthers>>

BtnEnable(flag) ==
    /\ Len(btnLog) < MaxEvents
    /\ btnEnabled' = flag
    /\ btnState' = ButtonAfterEnable(btnState, flag)
    /\ btnLog' = Append(btnLog,
          BtnEvent("enable", FALSE, "none", NoPos, "none", flag,
                   btnState, btnState', 0, "none", TRUE))
    /\ UNCHANGED <<btnOnClick, btnOthers>>

MouseButtons ==
    [down : BOOLEAN, button : MouseButtonKinds, pos : BtnPoints]

ButtonNext ==
    \/ \E btn \in MouseButtons : BtnHandleClick(btn)
    \/ \E status \in CursorTrackings : BtnCursor(status)
    \/ \E flag \in BOOLEAN : BtnEnable(flag)

(***************************************************************************)
(* Composite: storage and the focus protocol (element/composite.rs).       *)
(* A child is represented by what its wants_focus() answers; children are  *)
(* held through Arc, so that answer cannot change while they are held.     *)
(* Indices are 0-based as in the code: child i is children[i + 1].         *)
(***************************************************************************)
FocusRequests == {"FromTop", "FromBottom", "RestorePrevious"}

Focusable(chs) == {i \in 0..(Len(chs) - 1) : chs[i + 1]}
SetMin(S) == CHOOSE x \in S : \A y \in S : x <= y
SetMax(S) == CHOOSE x \in S : \A y \in S : x >= y

\* A begin_focus whose FromBottom scans like FromTop.
BeginFocusAlwaysTop(chs, focus, saved, req) ==
    IF req = "RestorePrevious" THEN saved
    ELSE IF Focusable(chs) # {} THEN SetMin(Focusable(chs)) ELSE focus

\* The focus_index begin_focus leaves: the loops assign only when they
\* find a child that wants focus.
BeginFocusIndex(chs, focus, saved, req) ==
    IF req = "FromTop"
    THEN (IF Focusable(chs) # {} THEN SetMin(Focusable(chs)) ELSE focus)
    ELSE IF req = "FromBottom"
    THEN (IF Focusable(chs) # {} THEN SetMax(Focusable(chs)) ELSE focus)
    ELSE saved

CompOp(op, req, pre) ==
    [op |-> op, req |-> req, pre |-> pre,
     prevOp |-> compLast.op, prevPre |-> compLast.pre]

CompPush(wants_focus) ==
    /\ Len(children) < MaxChildren
    /\ children' = Append(children, wants_focus)
    /\ cached_bounds' = Append(cached_bounds, RectZero)
    /\ compLast' = CompOp("push", "none", focus_index)
    /\ UNCHANGED <<focus_index, saved_focus, compOthers>>

\* Vec::pop on an empty vector returns None and changes nothing.
CompPop ==
    /\ cached_bounds' = IF cached_bounds = <<>> THEN <<>>
                        ELSE SubSeq(cached_bounds, 1, Len(cached_bounds) - 1)
    /\ children' = IF children = <<>> THEN <<>>
                   ELSE SubSeq(children, 1, Len(children) - 1)
    /\ compLast' = CompOp("pop", "none", focus_index)
    /\ UNCHANGED <<focus_index, saved_focus, compOthers>>

CompClear ==
    /\ children' = <<>>
    /\ cached_bounds' = <<>>
    /\ focus_index' = None
    /\ saved_focus' = None
    /\ compLast' = CompOp("clear", "none", focus_index)
    /\ UNCHANGED compOthers

CompSetFocus(index) ==
    /\ focus_index' = index
    /\ compLast' = CompOp("set_focus", "none", focus_index)
    /\ UNCHANGED <<children, saved_focus, cached_bounds, compOthers>>

CompBeginFocus(req) ==
    /\ focus_index' = BeginFocusIndex(children, focus_index, saved_focus, req)
    /\ compLast' = CompOp("begin_focus", req, focus_index)
    /\ UNCHANGED <<children, saved_focus, cached_bounds, compOthers>>

\* An end_focus that forgets to save.
EndFocusNoSave(focus, saved) == saved
\* The saved_focus end_focus leaves.
EndFocusSaved(focus, saved) == focus

CompEndFocus ==
    /\ saved_focus' = EndFocusSaved(focus_index, saved_focus)
    /\ focus_index' = None
    /\ compLast' = CompOp("end_focus", "none", focus_index)
    /\ UNCHANGED <<children, cached_bounds, compOthers>>

CompNext ==
    \/ \E wants_focus \in BOOLEAN : CompPush(wants_focus)
    \/ CompPop
    \/ CompClear
    \/ \E index \in {None} \cup (0..(MaxChildren - 1)) : CompSetFocus(index)
    \/ \E req \in FocusRequests : CompBeginFocus(req)
    \/ CompEndFocus

(***************************************************************************)
(* Child elements of the layout containers, by limits() and stretch().     *)
(*   empty   Element's defaults: ViewLimits::full(), stretch 1             *)
(*   button  ViewLimits::fixed, stretch 0 (BasicButton)                    *)
(*   flex20  ViewLimits::min_size(20, 20), stretch 1                       *)
(*   rigid30 ViewLimits::min_size(30, 30), stretch 0                       *)
(*   capped  min 10, max 25 on both axes, stretch 1                        *)
(*   flex50  ViewLimits::min_size(50, 20), stretch 1                       *)
(***************************************************************************)
ElemKinds == {"empty", "button", "flex20", "rigid30", "capped"}

Limits(minx, miny, maxx, maxy) ==
    [min |-> [x |-> R(minx), y |-> R(miny)], max |-> [x |-> R(maxx), y |-> R(maxy)]]

ElemLimits(k) ==
    CASE k = "empty"   -> Limits(0, 0, FULL_EXTENT, FULL_EXTENT)
      [] k = "button"  -> Limits(40, 20, 40, 20)
      [] k = "flex20"  -> Limits(20, 20, FULL_EXTENT, FULL_EXTENT)
      [] k = "rigid30" -> Limits(30, 30, FULL_EXTENT, FULL_EXTENT)
      [] k = "capped"  -> Limits(10, 10, 25, 25)
      [] k = "disabled" -> Limits(40, 20, 40, 20)
      [] k = "flex50"  -> Limits(50, 20, FULL_EXTENT, FULL_EXTENT)

ElemStretch(k) ==
    CASE k = "empty"   -> [x |-> R(1), y |-> R(1)]
      [] k = "button"  -> [x |-> R(0), y |-> R(0)]
      [] k = "flex20"  -> [x |-> R(1), y |-> R(1)]
      [] k = "rigid30" -> [x |-> R(0), y |-> R(0)]
      [] k = "capped"  -> [x |-> R(1), y |-> R(1)]
      [] k = "disabled" -> [x |-> R(0), y |-> R(0)]
      [] k = "flex50"  -> [x |-> R(1), y |-> R(1)]

SeqsUpTo(S, n) == UNION {[1..k -> S] : k \in 0..n}
Zeros(n) == [i \in 1..n |-> R(0)]

(***************************************************************************)
(* VTile and HTile (element/tile.rs). The two differ only in the axis:     *)
(* VTile reads limits.min.y, stretch.y and the height of the context's     *)
(* bounds, HTile the x counterparts and the width.                         *)
(***************************************************************************)
AxisMin(k, axis) == IF axis = "V" THEN ElemLimits(k).min.y ELSE ElemLimits(k).min.x
AxisMax(k, axis) == IF axis = "V" THEN ElemLimits(k).max.y ELSE ElemLimits(k).max.x
AxisStretch(k, axis) == IF axis = "V" THEN ElemStretch(k).y ELSE ElemStretch(k).x
AxisExtent(rect, axis) == IF axis = "V" THEN Height(rect) ELSE Width(rect)

TotalMin(chs, axis) == RSum([i \in 1..Len(chs) |-> AxisMin(chs[i], axis)])
TotalStretch(chs, axis) == RSum([i \in 1..Len(chs) |-> AxisStretch(chs[i], axis)])

\* extra = (height - total_min).max(0.0)
TileExtra(chs, axis, avail) == RMax(RSub(avail, TotalMin(chs, axis)), R(0))

\* A layout without the .min(limits.max) clamp.
TileElemExtentNoClamp(k, axis, extra, total_stretch) ==
    IF RLt(R(0), total_stretch)
    THEN RAdd(AxisMin(k, axis), RMul(extra, RDiv(AxisStretch(k, axis), total_stretch)))
    ELSE AxisMin(k, axis)

\* A layout that gives every child the same 1 / total_stretch share.
TileElemExtentEqualShare(k, axis, extra, total_stretch) ==
    IF RLt(R(0), total_stretch)
    THEN RMin(RAdd(AxisMin(k, axis), RMul(extra, RDiv(R(1), total_stretch))),
              AxisMax(k, axis))
    ELSE AxisMin(k, axis)

\* elem_height (elem_width) of one child in the second loop of compute_layout
TileElemExtent(k, axis, extra, total_stretch) ==
    IF RLt(R(0), total_stretch)
    THEN RMin(RAdd(AxisMin(k, axis),
                   RMul(extra, RDiv(AxisStretch(k, axis), total_stretch))),
              AxisMax(k, axis))
    ELSE AxisMin(k, axis)

\* A layout that hands the space a clamp cuts off to the last child.
TileComputeLayoutRedistributing(chs, axis, avail) ==
    LET extra == TileExtra(chs, axis, avail)
        ts == TotalStretch(chs, axis)
        ext == [i \in 1..Len(chs) |-> TileElemExtent(chs[i], axis, extra, ts)]
        cut == RSum([i \in 1..Len(chs) |->
                        RSub(TileElemExtentNoClamp(chs[i], axis, extra, ts), ext[i])])
        all == [i \in 1..Len(chs) |->
                   IF i = Len(chs) THEN RAdd(ext[i], RMax(cut, R(0))) ELSE ext[i]]
    IN  [i \in 1..(Len(chs) + 1) |-> RSum(SubSeq(all, 1, i - 1))]

\* compute_layout: tiles[i] is the sum of the extents of the children before
\* i, tiles[count] the sum of them all; vec![0.0] for no children.
TileComputeLayout(chs, axis, avail) ==
    LET extra == TileExtra(chs, axis, avail)
        ts == TotalStretch(chs, axis)
        ext == [i \in 1..Len(chs) |-> TileElemExtent(chs[i], axis, extra, ts)]
    IN  [i \in 1..(Len(chs) + 1) |-> RSum(SubSeq(ext, 1, i - 1))]

\* needs_compute && count > 0 in bounds_of
TileNeedsCompute(chs, cache) ==
    LET count == Len(chs)
    IN  /\ \/ Len(cache) # count + 1
           \/ (count > 0 /\ cache[count + 1] = R(0))
        /\ count > 0

\* The cache bounds_of leaves behind.
TileCacheAfter(chs, axis, cache, ctx) ==
    IF TileNeedsCompute(chs, cache)
    THEN TileComputeLayout(chs, axis, AxisExtent(ctx, axis))
    ELSE cache

\* The rectangle bounds_of builds from a cache (index is 0-based).
TileRect(axis, cache, ctx, index) ==
    IF index >= (IF Len(cache) = 0 THEN 0 ELSE Len(cache) - 1) THEN RectZero
    ELSE IF axis = "V"
    THEN MkRect(ctx.left, RAdd(ctx.top, cache[index + 1]),
                ctx.right, RAdd(ctx.top, cache[index + 2]))
    ELSE MkRect(RAdd(ctx.left, cache[index + 1]), ctx.top,
                RAdd(ctx.left, cache[index + 2]), ctx.bottom)

\* The contexts a tile is asked about: bounds of extent 100, 60 and 40.
TileCtxs == {MkRect(R(0), R(0), R(100), R(100)),
             MkRect(R(10), R(10), R(70), R(70)),
             MkRect(R(0), R(0), R(40), R(40))}

\* The outcome of a hit test on a container: a child (by index), the
\* container itself, or nothing.
Hit(i) == [kind |-> "child", index |-> i]
HitSelf == [kind |-> "self", index |-> None]
HitNone == [kind |-> "none", index |-> None]

NotLaid == [done |-> FALSE, ctx |-> RectZero, count |-> 0]
Laid(ctx, count) == [done |-> TRUE, ctx |-> ctx, count |-> count]
NoCall == [op |-> "none", ctx |-> RectZero, index |-> None, ret |-> RectZero,
           computed |-> FALSE, laidBefore |-> NotLaid]
NoHit == [op |-> "none", ctx |-> RectZero, p |-> Pt(0, 0), leaf |-> FALSE,
          control |-> FALSE, hit |-> HitNone, invoked |-> {}, handled |-> FALSE]

\* A push that leaves the offset cache alone.
TilePushNoCache(k) ==
    /\ Len(tileChildren) < MaxTileChildren
    /\ tileChildren' = Append(tileChildren, k)
    /\ tiles' = tiles
    /\ tileCall' = [NoCall EXCEPT !.op = "push"]
    /\ tileHit' = NoHit
    /\ UNCHANGED <<tileAxis, tileLaid, tileOthers>>

\* VTile::push / HTile::push
TilePush(k) ==
    /\ Len(tileChildren) < MaxTileChildren
    /\ tileChildren' = Append(tileChildren, k)
    /\ tiles' = Append(tiles, R(0))
    /\ tileCall' = [NoCall EXCEPT !.op = "push"]
    /\ tileHit' = NoHit
    /\ UNCHANGED <<tileAxis, tileLaid, tileOthers>>

TileBoundsOf(ctx, index) ==
    /\ tiles' = TileCacheAfter(tileChildren, tileAxis, tiles, ctx)
    /\ tileCall' = [op |-> "bounds_of", ctx |-> ctx, index |-> index,
                    ret |-> TileRect(tileAxis, tiles', ctx, index),
                    computed |-> TileNeedsCompute(tileChildren, tiles),
                    laidBefore |-> tileLaid]
    /\ tileLaid' = IF TileNeedsCompute(tileChildren, tiles)
                   THEN Laid(ctx, Len(tileChildren)) ELSE tileLaid
    /\ tileHit' = NoHit
    /\ UNCHANGED <<tileAxis, tileChildren, tileOthers>>

TileNext ==
    \/ \E k \in ElemKinds : TilePush(k)
    \/ \E ctx \in TileCtxs, index \in 0..MaxTileChildren : TileBoundsOf(ctx, index)

(***************************************************************************)
(* Grid (element/grid.rs). Child i sits in row i / columns and column      *)
(* i % columns; indices, rows and columns are 0-based as in the code.      *)
(***************************************************************************)
MaxColumns == 2
h_gap == 4
v_gap == 4

GridKinds == {"button", "flex20", "flex50"}

\* columns.max(1) in Grid::new and Grid::from_vec
GridColumns(requested) == IF requested >= 1 THEN requested ELSE 1

\* row_count
RowCount(chs, cols) == (Len(chs) + cols - 1) \div cols

InCol(chs, cols, c) == {i \in 0..(Len(chs) - 1) : i % cols = c}
InRow(chs, cols, r) == {i \in 0..(Len(chs) - 1) : i \div cols = r}

\* the fold x = x.max(v) over a set of values, from acc
RECURSIVE MaxOver(_, _)
MaxOver(S, acc) ==
    IF S = {} THEN acc
    ELSE LET v == CHOOSE w \in S : TRUE
         IN  MaxOver(S \ {v}, RMax(acc, v))

ColMinWidths(chs, cols) ==
    [c \in 1..cols |->
        MaxOver({ElemLimits(chs[i + 1]).min.x : i \in InCol(chs, cols, c - 1)}, R(0))]
ColStretches(chs, cols) ==
    [c \in 1..cols |->
        MaxOver({ElemStretch(chs[i + 1]).x : i \in InCol(chs, cols, c - 1)}, R(0))]
\* Row minimums that read the children's minimum widths.
RowMinHeightsFromWidths(chs, cols) ==
    [r \in 1..RowCount(chs, cols) |->
        MaxOver({ElemLimits(chs[i + 1]).min.x : i \in InRow(chs, cols, r - 1)}, R(0))]

RowMinHeights(chs, cols) ==
    [r \in 1..RowCount(chs, cols) |->
        MaxOver({ElemLimits(chs[i + 1]).min.y : i \in InRow(chs, cols, r - 1)}, R(0))]
RowStretches(chs, cols) ==
    [r \in 1..RowCount(chs, cols) |->
        MaxOver({ElemStretch(chs[i + 1]).y : i \in InRow(chs, cols, r - 1)}, R(0))]

\* A distribution whose extra space leaves the gaps out of the total minimum.
DistributeNoGap(mins, stretches, avail, gap) ==
    LET extra == RMax(RSub(avail, RSum(mins)), R(0))
        total_stretch == RSum(stretches)
    IN  IF RLt(R(0), total_stretch)
        THEN [i \in 1..Len(mins) |->
                 RAdd(mins[i], RMul(extra, RDiv(stretches[i], total_stretch)))]
        ELSE mins

\* min + extra * (stretch / total_stretch) per track when total_stretch > 0,
\* the minimums otherwise; extra = (available - total_min).max(0.0) where
\* total_min includes gap * (tracks - 1).
Distribute(mins, stretches, avail, gap) ==
    LET total_min == RAdd(RSum(mins), RMul(R(gap), R(Len(mins) - 1)))
        extra == RMax(RSub(avail, total_min), R(0))
        total_stretch == RSum(stretches)
    IN  IF RLt(R(0), total_stretch)
        THEN [i \in 1..Len(mins) |->
                 RAdd(mins[i], RMul(extra, RDiv(stretches[i], total_stretch)))]
        ELSE mins

\* compute_layout: the arrays it stores (it returns early, storing nothing,
\* when there are no children).
GridColWidths(chs, cols, bounds) ==
    Distribute(ColMinWidths(chs, cols), ColStretches(chs, cols), Width(bounds), h_gap)
GridRowHeights(chs, cols, bounds) ==
    Distribute(RowMinHeights(chs, cols), RowStretches(chs, cols), Height(bounds), v_gap)

\* The test bounds_of makes before using the caches.
GridNeedsCompute(chs, cols, cw, rh) ==
    cw = <<>> \/ Len(cw) # cols

\* col_widths.get(i).copied().unwrap_or(0.0)
GetOr0(s, i) == IF i < Len(s) THEN s[i + 1] ELSE R(0)

\* The rectangle bounds_of builds from the caches, for index < count.
GridRect(cols, cw, rh, ctx, index) ==
    LET row == index \div cols
        col == index % cols
        x == RAdd(ctx.left, RSum([i \in 1..col |-> RAdd(GetOr0(cw, i - 1), R(h_gap))]))
        y == RAdd(ctx.top, RSum([i \in 1..row |-> RAdd(GetOr0(rh, i - 1), R(v_gap))]))
    IN  MkRect(x, y, RAdd(x, GetOr0(cw, col)), RAdd(y, GetOr0(rh, row)))

GridCtxs == {MkRect(R(0), R(0), R(200), R(100)),
             MkRect(R(10), R(10), R(110), R(60))}

\* Grid::push only pushes to the inner composite.
GridPush(k) ==
    /\ Len(gridChildren) < MaxGridChildren
    /\ gridChildren' = Append(gridChildren, k)
    /\ gridCall' = [NoCall EXCEPT !.op = "push"]
    /\ UNCHANGED <<columns, col_widths, row_heights, gridLaid, gridOthers>>

GridBoundsOf(ctx, index) ==
    LET compute == index < Len(gridChildren)
                   /\ GridNeedsCompute(gridChildren, columns, col_widths, row_heights)
    IN  /\ col_widths' = IF compute THEN GridColWidths(gridChildren, columns, ctx)
                         ELSE col_widths
        /\ row_heights' = IF compute THEN GridRowHeights(gridChildren, columns, ctx)
                          ELSE row_heights
        /\ gridLaid' = IF compute THEN Laid(ctx, Len(gridChildren)) ELSE gridLaid
        /\ gridCall' = [op |-> "bounds_of", ctx |-> ctx, index |-> index,
                        ret |-> IF index >= Len(gridChildren) THEN RectZero
                                ELSE GridRect(columns, col_widths', row_heights', ctx, index),
                        computed |-> compute, laidBefore |-> gridLaid]
        /\ UNCHANGED <<gridChildren, columns, gridOthers>>

\* draw computes the layout when col_widths is empty; the bounds_of calls it
\* then makes find the caches filled.
GridDraw(ctx) ==
    LET compute == col_widths = <<>> /\ Len(gridChildren) > 0
    IN  /\ col_widths' = IF compute THEN GridColWidths(gridChildren, columns, ctx)
                         ELSE col_widths
        /\ row_heights' = IF compute THEN GridRowHeights(gridChildren, columns, ctx)
                          ELSE row_heights
        /\ gridLaid' = IF compute THEN Laid(ctx, Len(gridChildren)) ELSE gridLaid
        /\ gridCall' = [NoCall EXCEPT !.op = "draw", !.ctx = ctx, !.computed = compute]
        /\ UNCHANGED <<gridChildren, columns, gridOthers>>

GridNext ==
    \/ \E k \in GridKinds : GridPush(k)
    \/ \E ctx \in GridCtxs, index \in 0..MaxGridChildren : GridBoundsOf(ctx, index)
    \/ \E ctx \in GridCtxs : GridDraw(ctx)

(***************************************************************************)
(* limits() of the containers (composite.rs, tile.rs, grid.rs, layer.rs).  *)
(***************************************************************************)
ContainerKinds == {"Composite", "VTile", "HTile", "Grid", "Layer"}

\* the fold x = x.min(v) over a set of values, from acc
RECURSIVE MinOver(_, _)
MinOver(S, acc) ==
    IF S = {} THEN acc
    ELSE LET v == CHOOSE w \in S : TRUE
         IN  MinOver(S \ {v}, RMin(acc, v))

MkLimits(minx, miny, maxx, maxy) ==
    [min |-> [x |-> minx, y |-> miny], max |-> [x |-> maxx, y |-> maxy]]

MinXs(chs) == {ElemLimits(chs[i]).min.x : i \in 1..Len(chs)}
MinYs(chs) == {ElemLimits(chs[i]).min.y : i \in 1..Len(chs)}
MaxXs(chs) == {ElemLimits(chs[i]).max.x : i \in 1..Len(chs)}
MaxYs(chs) == {ElemLimits(chs[i]).max.y : i \in 1..Len(chs)}
SumMinX(chs) == RSum([i \in 1..Len(chs) |-> ElemLimits(chs[i]).min.x])
SumMinY(chs) == RSum([i \in 1..Len(chs) |-> ElemLimits(chs[i]).min.y])
SumMaxX(chs) == RSum([i \in 1..Len(chs) |-> ElemLimits(chs[i]).max.x])
SumMaxY(chs) == RSum([i \in 1..Len(chs) |-> ElemLimits(chs[i]).max.y])

\* Composite::limits: the largest minimum and the largest maximum, from 0
CompositeLimits(chs) ==
    MkLimits(MaxOver(MinXs(chs), R(0)), MaxOver(MinYs(chs), R(0)),
             MaxOver(MaxXs(chs), R(0)), MaxOver(MaxYs(chs), R(0)))

\* Tile limits whose maximum is not raised to the minimum.
TileLimitsNoRaise(chs, axis) ==
    IF axis = "V"
    THEN MkLimits(MaxOver(MinXs(chs), R(0)), SumMinY(chs),
                  MinOver(MaxXs(chs), R(FULL_EXTENT)), SumMaxY(chs))
    ELSE MkLimits(SumMinX(chs), MaxOver(MinYs(chs), R(0)),
                  SumMaxX(chs), MinOver(MaxYs(chs), R(FULL_EXTENT)))

\* VTile::limits / HTile::limits: sums along the axis; across it the largest
\* minimum and the smallest maximum, from FULL_EXTENT; max.max(min) at the end
TileLimits(chs, axis) ==
    IF axis = "V"
    THEN LET min_width == MaxOver(MinXs(chs), R(0))
             min_height == SumMinY(chs)
         IN  MkLimits(min_width, min_height,
                      RMax(MinOver(MaxXs(chs), R(FULL_EXTENT)), min_width),
                      RMax(SumMaxY(chs), min_height))
    ELSE LET min_width == SumMinX(chs)
             min_height == MaxOver(MinYs(chs), R(0))
         IN  MkLimits(min_width, min_height,
                      RMax(SumMaxX(chs), min_width),
                      RMax(MinOver(MaxYs(chs), R(FULL_EXTENT)), min_height))

ColMaxWidths(chs, cols) ==
    [c \in 1..cols |->
        MaxOver({ElemLimits(chs[i + 1]).max.x : i \in InCol(chs, cols, c - 1)}, R(0))]
RowMaxHeights(chs, cols) ==
    [r \in 1..RowCount(chs, cols) |->
        MaxOver({ElemLimits(chs[i + 1]).max.y : i \in InRow(chs, cols, r - 1)}, R(0))]

\* a.saturating_sub(1)
SatPred(n) == IF n >= 1 THEN n - 1 ELSE 0

\* Grid::limits: fixed(0, 0) without children; else the column and row
\* extremes summed, plus the gaps, the maximum capped at FULL_EXTENT
GridLimits(chs, cols) ==
    IF Len(chs) = 0 THEN MkLimits(R(0), R(0), R(0), R(0))
    ELSE LET hgaps == RMul(R(h_gap), R(SatPred(cols)))
             vgaps == RMul(R(v_gap), R(SatPred(RowCount(chs, cols))))
         IN  MkLimits(RAdd(RSum(ColMinWidths(chs, cols)), hgaps),
                      RAdd(RSum(RowMinHeights(chs, cols)), vgaps),
                      RMin(RAdd(RSum(ColMaxWidths(chs, cols)), hgaps), R(FULL_EXTENT)),
                      RMin(RAdd(RSum(RowMaxHeights(chs, cols)), vgaps), R(FULL_EXTENT)))

\* Layer::limits: the largest minimum, the smallest maximum from
\* FULL_EXTENT, and max.max(min) at the end
LayerLimits(chs) ==
    LET minx == MaxOver(MinXs(chs), R(0))
        miny == MaxOver(MinYs(chs), R(0))
    IN  MkLimits(minx, miny,
                 RMax(MinOver(MaxXs(chs), R(FULL_EXTENT)), minx),
                 RMax(MinOver(MaxYs(chs), R(FULL_EXTENT)), miny))

ContainerLimits(kind, chs, cols) ==
    CASE kind = "Composite" -> CompositeLimits(chs)
      [] kind = "VTile" -> TileLimits(chs, "V")
      [] kind = "HTile" -> TileLimits(chs, "H")
      [] kind = "Grid" -> GridLimits(chs, cols)
      [] kind = "Layer" -> LayerLimits(chs)

NoLimits == [op |-> "none", limits |-> MkLimits(R(0), R(0), R(0), R(0))]

\* push of any of the containers
LmPush(k) ==
    /\ Len(lmChildren) < MaxGridChildren
    /\ lmChildren' = Append(lmChildren, k)
    /\ lmCall' = [NoLimits EXCEPT !.op = "push"]
    /\ UNCHANGED <<lmKind, lmColumns, limitOthers>>

\* limits(ctx)
LmLimits ==
    /\ lmCall' = [op |-> "limits",
                  limits |-> ContainerLimits(lmKind, lmChildren, lmColumns)]
    /\ UNCHANGED <<lmKind, lmChildren, lmColumns, limitOthers>>

LimitsNext ==
    \/ \E k \in ElemKinds : LmPush(k)
    \/ LmLimits

(***************************************************************************)
(* The guards a widget takes while it handles a click, and the callback it *)
(* runs (button.rs, slider.rs, list.rs). A handler is the sequence of its  *)
(* lock acquisitions, releases and callback invocation, in program order;  *)
(* std::sync::RwLock is not reentrant, so a thread that asks for a lock it *)
(* holds in a conflicting mode waits for itself.                           *)
(***************************************************************************)
LockWidgets == {"BasicButton", "Slider", "List"}
ClickBranches == {"press", "release_pressed", "release_other"}

Acq(lock, mode) == [op |-> "acq", lock |-> lock, mode |-> mode]
Rel(lock) == [op |-> "rel", lock |-> lock, mode |-> "none"]
RunCallback == [op |-> "callback", lock |-> "none", mode |-> "none"]

\* A handle_click that keeps the write guard across the callback.
ButtonClickOpsNoDrop(branch) ==
    IF branch = "release_pressed"
    THEN <<Acq("state", "w"), RunCallback, Rel("state")>>
    ELSE <<Acq("state", "w"), Rel("state")>>

\* BasicButton::handle_click with an on_click callback: the release of a
\* pressed button drops the guard, calls back, and locks again to write.
ButtonClickOps(branch) ==
    IF branch = "release_pressed"
    THEN <<Acq("state", "w"), Rel("state"), RunCallback,
           Acq("state", "w"), Rel("state")>>
    ELSE <<Acq("state", "w"), Rel("state")>>

\* Slider::handle_click with an on_change callback: a press reads the value
\* into drag_start_value under the state guard, drops it, writes the value
\* and reads it back as the callback's argument.
SliderClickOps(branch) ==
    IF branch = "press"
    THEN <<Acq("state", "w"), Acq("value", "r"), Rel("value"),
           Acq("drag_start_value", "w"), Rel("drag_start_value"), Rel("state"),
           Acq("value", "w"), Rel("value"), Acq("value", "r"), Rel("value"),
           RunCallback>>
    ELSE <<Acq("state", "w"), Rel("state")>>

\* List::handle_click with an on_select callback, for a press on an item:
\* item_bounds reads scroll_offset under the items guard, which is dropped
\* before the selection is written; a release returns at once.
ListClickOps(branch) ==
    IF branch = "press"
    THEN <<Acq("items", "r"), Acq("scroll_offset", "r"), Rel("scroll_offset"),
           Rel("items"), Acq("selected", "w"), Rel("selected"), RunCallback>>
    ELSE <<>>

ClickOps(widget, branch) ==
    CASE widget = "BasicButton" -> ButtonClickOps(branch)
      [] widget = "Slider"      -> SliderClickOps(branch)
      [] widget = "List"        -> ListClickOps(branch)

\* The locks the widget's own &self methods take, as a callback holding a
\* reference to the widget can call them.
MethodLocks(widget) ==
    CASE widget = "BasicButton" ->
            [state |-> {<<"state", "r">>}, handle_click |-> {<<"state", "w">>}]
      [] widget = "Slider" ->
            [get_value |-> {<<"value", "r">>}, set_value |-> {<<"value", "w">>},
             handle_click |-> {<<"state", "w">>, <<"value", "w">>,
                               <<"drag_start_value", "w">>}]
      [] widget = "List" ->
            [get_selected |-> {<<"selected", "r">>},
             set_selected |-> {<<"selected", "w">>, <<"items", "r">>},
             add_item |-> {<<"items", "w">>}]

\* RwLock: a read is granted beside reads, a write only when the lock is free.
Grantable(held, lock, mode) ==
    IF mode = "w" THEN \A h \in held : h[1] # lock
    ELSE <<lock, "w">> \notin held

LkIdle == lkOps = <<>> /\ ~lkBlocked

\* An event arrives and handle_click starts.
LkHandleClick(branch) ==
    /\ LkIdle
    /\ Len(lkCalls) < MaxEvents
    /\ lkOps' = ClickOps(lkWidget, branch)
    /\ UNCHANGED <<lkWidget, lkHeld, lkBlocked, lkCalls, lockOthers>>

LkAcquire ==
    /\ lkOps # <<>> /\ ~lkBlocked
    /\ Head(lkOps).op = "acq"
    /\ IF Grantable(lkHeld, Head(lkOps).lock, Head(lkOps).mode)
       THEN /\ lkHeld' = lkHeld \cup {<<Head(lkOps).lock, Head(lkOps).mode>>}
            /\ lkOps' = Tail(lkOps)
            /\ UNCHANGED lkBlocked
       ELSE /\ lkBlocked' = TRUE
            /\ UNCHANGED <<lkHeld, lkOps>>
    /\ UNCHANGED <<lkWidget, lkCalls, lockOthers>>

LkRelease ==
    /\ lkOps # <<>> /\ ~lkBlocked
    /\ Head(lkOps).op = "rel"
    /\ lkHeld' = {h \in lkHeld : h[1] # Head(lkOps).lock}
    /\ lkOps' = Tail(lkOps)
    /\ UNCHANGED <<lkWidget, lkBlocked, lkCalls, lockOthers>>

\* The callback runs and calls one method of the widget, which takes its
\* locks and returns, or waits forever for a lock the handler holds.
LkCallback(method) ==
    /\ lkOps # <<>> /\ ~lkBlocked
    /\ Head(lkOps).op = "callback"
    /\ method \in DOMAIN MethodLocks(lkWidget)
    /\ LET returns == \A l \in MethodLocks(lkWidget)[method] :
                          Grantable(lkHeld, l[1], l[2])
       IN  /\ lkCalls' = Append(lkCalls, [method |-> method, held |-> lkHeld,
                                          returned |-> returns])
           /\ lkBlocked' = ~returns
           /\ lkOps' = IF returns THEN Tail(lkOps) ELSE lkOps
    /\ UNCHANGED <<lkWidget, lkHeld, lockOthers>>

LockMethods == {"state", "handle_click", "get_value", "set_value",
                "get_selected", "set_selected", "add_item"}

LockNext ==
    \/ \E branch \in ClickBranches : LkHandleClick(branch)
    \/ LkAcquire
    \/ LkRelease
    \/ \E method \in LockMethods : LkCallback(method)

(***************************************************************************)
(* The two click entry points of an element: click(&mut self) and          *)
(* handle_click(&self) (element/mod.rs:201-212). The same events are given *)
(* to two instances of one element, one through each entry point.          *)
(***************************************************************************)
EntryKinds == {"BasicButton", "ToggleButton", "Layer"}

\* An element as far as clicks change it: the interaction state, the toggle
\* value and the number of callback invocations so far.
EntryElement(enabled) ==
    [state |-> IF enabled THEN "Normal" ELSE "Disabled", value |-> FALSE,
     fired |-> 0, enabled |-> enabled, onClick |-> TRUE]

\* Element::click and Element::handle_click as the trait defines them.
DefaultClick(el) == [el |-> el, ret |-> FALSE]

\* BasicButton::handle_click; BasicButton::click calls it.
BasicButtonClick(el, btn) ==
    [el |-> [el EXCEPT
               !.state = ButtonAfterClick(el.state, el.enabled, BtnBounds, btn),
               !.fired = el.fired + ButtonFires(el.state, el.enabled, el.onClick, btn)],
     ret |-> ButtonHandles(el.enabled, btn)]

\* ToggleButton::click: a release inside the bounds of a pressed button
\* toggles the value.
ToggleButtonClick(el, btn) ==
    IF ~el.enabled \/ btn.button # "Left" THEN [el |-> el, ret |-> FALSE]
    ELSE IF btn.down THEN [el |-> [el EXCEPT !.state = "Pressed"], ret |-> TRUE]
    ELSE IF el.state = "Pressed" /\ Contains(BtnBounds, btn.pos)
    THEN [el |-> [el EXCEPT !.state = "Hover", !.value = ~el.value], ret |-> TRUE]
    ELSE [el |-> [el EXCEPT !.state = IF Contains(BtnBounds, btn.pos)
                                      THEN "Hover" ELSE "Normal"],
          ret |-> TRUE]

\* What each element kind implements: BasicButton both entry points,
\* ToggleButton only click, Layer a click that returns false.
EntryStep(kind, entry, el, btn) ==
    CASE kind = "BasicButton" -> BasicButtonClick(el, btn)
      [] kind = "ToggleButton" ->
            IF entry = "click" THEN ToggleButtonClick(el, btn) ELSE DefaultClick(el)
      [] kind = "Layer" -> DefaultClick(el)

EntDeliver(btn) ==
    /\ Len(entLog) < MaxEvents
    /\ entViaClick' = EntryStep(entKind, "click", entViaClick, btn).el
    /\ entViaHandle' = EntryStep(entKind, "handle_click", entViaHandle, btn).el
    /\ entLog' = Append(entLog,
          [down |-> btn.down, button |-> btn.button,
           retClick |-> EntryStep(entKind, "click", entViaClick, btn).ret,
           retHandle |-> EntryStep(entKind, "handle_click", entViaHandle, btn).ret])
    /\ UNCHANGED <<entKind, entryOthers>>

EntryNext == \E btn \in MouseButtons : EntDeliver(btn)

(***************************************************************************)
(* Leaf elements as the containers see them: whether hit_test claims a     *)
(* point, wants_control(), wants_focus() and what handle_click returns.    *)
(*   button    an enabled BasicButton (button.rs:163-173)                  *)
(*   disabled  a BasicButton after enable(false)                           *)
(*   textbox   an enabled TextBox (text_box.rs:463-477)                    *)
(*   empty     Empty, with the defaults of Element (mod.rs:173-258)        *)
(***************************************************************************)
LeafKinds == {"button", "disabled", "textbox", "empty"}

\* hit_test(ctx, p, _, _).is_some(): ctx.bounds.contains(p) && self.enabled
LeafHit(k, bounds, p) == k \in {"button", "textbox"} /\ Contains(bounds, p)
LeafWantsControl(k) == k \in {"button", "textbox"}
LeafWantsFocus(k) == k = "textbox"

(***************************************************************************)
(* Layer (element/layer.rs): every child has the layer's bounds.           *)
(***************************************************************************)
\* A hit_test that scans the children in index order.
LayerHitTestBottomUp(chs, bounds, p, leaf) ==
    LET hits == {i \in 0..(Len(chs) - 1) : LeafHit(chs[i + 1], bounds, p)}
    IN  IF ~Contains(bounds, p) THEN HitNone
        ELSE IF hits # {} THEN Hit(SetMin(hits))
        ELSE IF leaf THEN HitNone ELSE HitSelf

\* Layer::hit_test: the first child, from the last to the first, whose
\* hit_test returns an element; else the layer itself unless leaf is asked.
LayerHitTest(chs, bounds, p, leaf) ==
    LET hits == {i \in 0..(Len(chs) - 1) : LeafHit(chs[i + 1], bounds, p)}
    IN  IF ~Contains(bounds, p) THEN HitNone
        ELSE IF hits # {} THEN Hit(SetMax(hits))
        ELSE IF leaf THEN HitNone ELSE HitSelf

NoLayerCall == [op |-> "none", p |-> NoPos, leaf |-> FALSE, control |-> FALSE,
                ret |-> HitNone, index |-> None, rect |-> RectZero]

LayerPush(k) ==
    /\ Len(layerChildren) < MaxChildren
    /\ layerChildren' = Append(layerChildren, k)
    /\ layerCall' = [NoLayerCall EXCEPT !.op = "push"]
    /\ UNCHANGED layerOthers

LayerPop ==
    /\ layerChildren' = IF layerChildren = <<>> THEN <<>>
                        ELSE SubSeq(layerChildren, 1, Len(layerChildren) - 1)
    /\ layerCall' = [NoLayerCall EXCEPT !.op = "pop"]
    /\ UNCHANGED layerOthers

LayerClear ==
    /\ layerChildren' = <<>>
    /\ layerCall' = [NoLayerCall EXCEPT !.op = "clear"]
    /\ UNCHANGED layerOthers

LayerHit(p, leaf, control) ==
    /\ layerCall' = [NoLayerCall EXCEPT !.op = "hit_test", !.p = p, !.leaf = leaf,
                        !.control = control,
                        !.ret = LayerHitTest(layerChildren, BtnBounds, p, leaf)]
    /\ UNCHANGED <<layerChildren, layerOthers>>

\* Layer::bounds_of: ctx.bounds, whatever the index
LayerBoundsOfRect(chs, bounds, index) == bounds

LayerBoundsOf(index) ==
    /\ layerCall' = [NoLayerCall EXCEPT !.op = "bounds_of", !.index = index,
                        !.rect = LayerBoundsOfRect(layerChildren, BtnBounds, index)]
    /\ UNCHANGED <<layerChildren, layerOthers>>

LayerNext ==
    \/ \E k \in LeafKinds : LayerPush(k)
    \/ LayerPop
    \/ LayerClear
    \/ \E p \in BtnPoints, leaf \in BOOLEAN, control \in BOOLEAN :
          LayerHit(p, leaf, control)
    \/ \E index \in 0..MaxChildren : LayerBoundsOf(index)

(***************************************************************************)
(* Deck (element/layer.rs): one active child.                              *)
(***************************************************************************)
DeckQueries == {"draw", "hit_test", "wants_control", "wants_focus", "limits"}

\* A deck that treats its children as a layer does.
DeckConsultsAll(op, chs, active) == 0..(Len(chs) - 1)

\* The children a method of Deck calls into: self.inner.at(self.active_index)
\* for the methods Deck implements, none for those it inherits.
DeckConsults(op, chs, active) ==
    IF op \in DeckQueries /\ active < Len(chs) THEN {active} ELSE {}

NoDeckCall == [op |-> "none", consulted |-> {}, ret |-> FALSE]

DeckPush(k) ==
    /\ Len(deckChildren) < MaxChildren
    /\ deckChildren' = Append(deckChildren, k)
    /\ deckCall' = [NoDeckCall EXCEPT !.op = "push"]
    /\ UNCHANGED <<active_index, deckOthers>>

DeckSetActive(index) ==
    /\ active_index' = IF index < Len(deckChildren) THEN index ELSE active_index
    /\ deckCall' = [NoDeckCall EXCEPT !.op = "set_active"]
    /\ UNCHANGED <<deckChildren, deckOthers>>

\* draw, hit_test (at a point inside the bounds), wants_control, wants_focus
\* and limits; ret is whether the method found something to answer with.
DeckQuery(op) ==
    /\ deckCall' =
          [op |-> op,
           consulted |-> DeckConsults(op, deckChildren, active_index),
           ret |-> /\ active_index < Len(deckChildren)
                   /\ CASE op = "hit_test" ->
                             LeafHit(deckChildren[active_index + 1], BtnBounds, Pt(20, 15))
                        [] op = "wants_control" ->
                             LeafWantsControl(deckChildren[active_index + 1])
                        [] op = "wants_focus" ->
                             LeafWantsFocus(deckChildren[active_index + 1])
                        [] OTHER -> TRUE]
    /\ UNCHANGED <<deckChildren, active_index, deckOthers>>

\* Deck implements neither click nor handle_click: Element's defaults run.
DeckClick(entry, btn) ==
    /\ deckCall' = [op |-> entry,
                    consulted |-> DeckConsults(entry, deckChildren, active_index),
                    ret |-> DefaultClick(deckChildren).ret]
    /\ UNCHANGED <<deckChildren, active_index, deckOthers>>

DeckNext ==
    \/ \E k \in LeafKinds : DeckPush(k)
    \/ \E index \in 0..MaxChildren : DeckSetActive(index)
    \/ \E op \in DeckQueries : DeckQuery(op)
    \/ \E entry \in {"click", "handle_click"}, btn \in MouseButtons : DeckClick(entry, btn)

(***************************************************************************)
(* Hit testing and click dispatch of a tile (element/tile.rs,              *)
(* element/composite.rs). Every loop goes through bounds_of, which lays    *)
(* the tile out for the context at hand when the offset cache asks for it. *)
(***************************************************************************)
HitKinds == {"button", "disabled", "empty"}

\* The contexts of a hit test or click: room for every child, and room for
\* two buttons of a column only.
HitCtxs == {MkRect(R(0), R(0), R(100), R(100)), MkRect(R(0), R(0), R(40), R(40))}

\* The points: on the edge two buttons of a column share, and below the
\* smaller context.
HitPoints == {Pt(20, 20), Pt(20, 50)}

HitButtons == [down : BOOLEAN, button : MouseButtonKinds, pos : HitPoints]

\* handle_click of a child: BasicButton::handle_click, or the trait's default
LeafHandleClick(k, btn) ==
    CASE k = "button"   -> ButtonHandles(TRUE, btn)
      [] k = "disabled" -> ButtonHandles(FALSE, btn)
      [] k = "empty"    -> FALSE

\* The children (0-based) whose bounds_of rectangle contains p.
TileInside(chs, axis, cache, ctx, p) ==
    {i \in 0..(Len(chs) - 1) : Contains(TileRect(axis, cache, ctx, i), p)}

\* VTile::hit_test / HTile::hit_test, on the cache bounds_of has left
TileHitTest(chs, axis, cache, ctx, p, leaf) ==
    LET hits == {i \in TileInside(chs, axis, cache, ctx, p) :
                    LeafHit(chs[i + 1], TileRect(axis, cache, ctx, i), p)}
    IN  IF ~Contains(ctx, p) THEN HitNone
        ELSE IF hits # {} THEN Hit(SetMin(hits))
        ELSE IF leaf THEN HitNone ELSE HitSelf

\* CompositeBase::hit_element: info.element_index when the loop ends
HitElement(chs, axis, cache, ctx, p, control) ==
    LET inside == TileInside(chs, axis, cache, ctx, p)
        stops == {i \in inside : ~control \/ LeafWantsControl(chs[i + 1])}
    IN  IF inside = {} THEN HitNone
        ELSE IF stops # {} THEN Hit(SetMin(stops))
        ELSE Hit(SetMax(inside))

\* VTile::handle_click / HTile::handle_click: the children whose
\* handle_click runs, up to the first that returns true
TileClicked(chs, axis, cache, ctx, btn) ==
    LET inside == TileInside(chs, axis, cache, ctx, btn.pos)
        handling == {i \in inside : LeafHandleClick(chs[i + 1], btn)}
    IN  IF handling = {} THEN inside
        ELSE {i \in inside : i <= SetMin(handling)}

\* Composite::wants_control of the tile's inner composite
TileWantsControl(chs) == \E i \in 1..Len(chs) : LeafWantsControl(chs[i])

\* The layout bookkeeping of an operation that has called bounds_of.
TileLaidOut(ctx, op) ==
    /\ tiles' = TileCacheAfter(tileChildren, tileAxis, tiles, ctx)
    /\ tileLaid' = IF TileNeedsCompute(tileChildren, tiles)
                   THEN Laid(ctx, Len(tileChildren)) ELSE tileLaid
    /\ tileCall' = [NoCall EXCEPT !.op = op]

TileHit(ctx, p, leaf, control) ==
    /\ IF Contains(ctx, p)
       THEN TileLaidOut(ctx, "hit_test")
       ELSE /\ tileCall' = [NoCall EXCEPT !.op = "hit_test"]
            /\ UNCHANGED <<tiles, tileLaid>>
    /\ tileHit' = [NoHit EXCEPT !.op = "hit_test", !.ctx = ctx, !.p = p,
                     !.leaf = leaf, !.control = control,
                     !.hit = TileHitTest(tileChildren, tileAxis, tiles', ctx, p, leaf)]
    /\ UNCHANGED <<tileAxis, tileChildren, tileOthers>>

TileHitElement(ctx, p, control) ==
    /\ TileLaidOut(ctx, "hit_element")
    /\ tileHit' = [NoHit EXCEPT !.op = "hit_element", !.ctx = ctx, !.p = p,
                     !.control = control,
                     !.hit = HitElement(tileChildren, tileAxis, tiles', ctx, p, control)]
    /\ UNCHANGED <<tileAxis, tileChildren, tileOthers>>

TileHandleClick(ctx, btn) ==
    /\ TileLaidOut(ctx, "handle_click")
    /\ tileHit' = [NoHit EXCEPT !.op = "handle_click", !.ctx = ctx, !.p = btn.pos,
                     !.invoked = TileClicked(tileChildren, tileAxis, tiles', ctx, btn),
                     !.handled = \E i \in TileClicked(tileChildren, tileAxis, tiles', ctx, btn) :
                                    LeafHandleClick(tileChildren[i + 1], btn)]
    /\ UNCHANGED <<tileAxis, tileChildren, tileOthers>>

TileHitNext ==
    \/ \E k \in HitKinds : TilePush(k)
    \/ \E ctx \in HitCtxs, p \in HitPoints, leaf \in BOOLEAN, control \in BOOLEAN :
          TileHit(ctx, p, leaf, control)
    \/ \E ctx \in HitCtxs, p \in HitPoints, control \in BOOLEAN :
          TileHitElement(ctx, p, control)
    \/ \E ctx \in HitCtxs, btn \in HitButtons : TileHandleClick(ctx, btn)

(***************************************************************************)
(* The structural proxies around one subject (element/proxy.rs, align.rs,  *)
(* size.rs, margin.rs). A method the proxy's impl Element does not define  *)
(* is Element's default, which knows no subject.                           *)
(***************************************************************************)
ProxyKinds == {"Proxy", "HAlign", "VAlign", "FixedSize", "MinSize", "MaxSize",
               "Stretch", "MarginElement"}

\* The methods of trait Element through which events arrive.
EventMethods == {"click", "handle_click", "drag", "key", "text", "cursor", "scroll",
                 "handle_scroll"}

\* The methods of trait Element that are given a context or ask the element.
ProxyMethods == {"draw", "layout", "hit_test", "wants_control", "enable",
                 "is_enabled", "wants_focus"} \cup EventMethods

\* The methods each proxy's impl Element defines by calling the subject.
ProxyForwards(kind) ==
    LET common == {"draw", "layout", "hit_test", "wants_control", "enable",
                   "is_enabled", "wants_focus"}
    IN  CASE kind \in {"Proxy", "HAlign", "VAlign"} ->
                 common \cup {"click", "drag", "key", "text", "cursor", "scroll"}
          [] kind \in {"FixedSize", "MarginElement"} -> common \cup EventMethods
          [] kind \in {"MinSize", "MaxSize", "Stretch"} ->
                 common \cup {"handle_click", "handle_scroll"}

MkMargin(l, t, r, b) == [left |-> R(l), top |-> R(t), right |-> R(r), bottom |-> R(b)]
MarginZero == MkMargin(0, 0, 0, 0)

\* The margins tried: uneven, and taller than half of the smaller context.
PxMargins == {MkMargin(2, 4, 6, 1), MkMargin(10, 10, 10, 10)}

\* MarginElement::adjust_bounds
AdjustBounds(margin, bounds) ==
    MkRect(RAdd(bounds.left, margin.left), RAdd(bounds.top, margin.top),
           RSub(bounds.right, margin.right), RSub(bounds.bottom, margin.bottom))

\* A margin that insets the bounds for drawing and layout only.
ProxyBoundsDrawOnly(kind, method, margin, bounds) ==
    IF kind = "MarginElement" /\ method \in {"draw", "layout"}
    THEN AdjustBounds(margin, bounds)
    ELSE bounds

\* The bounds of the context a proxy hands to its subject with a call.
ProxyBounds(kind, method, margin, bounds) ==
    IF kind = "MarginElement"
       /\ method \in {"draw", "layout", "hit_test", "click", "handle_click", "drag",
                      "handle_scroll"}
    THEN AdjustBounds(margin, bounds)
    ELSE bounds

\* align.clamp(0.0, 1.0) in HAlign::new, VAlign::new and set_align
AlignClamp(a) == RMax(R(0), RMin(a, R(1)))

\* The alignments asked for: left of the range, the middle, right of it.
PxAligns == {R(0 - 1), RDiv(R(1), R(2)), R(2)}

\* The constraints of a size proxy tried: below and above the button's size.
MkSize(w, h) == [w |-> R(w), h |-> R(h)]
SizeZero == MkSize(0, 0)
PxSizes == {MkSize(10, 10), MkSize(50, 50)}

\* Margin::width, Margin::height
MarginWidth(margin) == RAdd(margin.left, margin.right)
MarginHeight(margin) == RAdd(margin.top, margin.bottom)

\* Margin limits that add each side's inset once to the minimum only.
ProxyLimitsMinOnly(kind, margin, size, e) ==
    IF kind = "MarginElement"
    THEN MkLimits(RAdd(e.min.x, MarginWidth(margin)), RAdd(e.min.y, MarginHeight(margin)),
                  e.max.x, e.max.y)
    ELSE e

\* limits() of each proxy from e, the limits of its subject
ProxyLimits(kind, margin, size, e) ==
    CASE kind \in {"Proxy", "Stretch"} -> e
      [] kind = "HAlign" -> MkLimits(e.min.x, e.min.y, R(FULL_EXTENT), e.max.y)
      [] kind = "VAlign" -> MkLimits(e.min.x, e.min.y, e.max.x, R(FULL_EXTENT))
      [] kind = "FixedSize" -> MkLimits(size.w, size.h, size.w, size.h)
      [] kind = "MinSize" ->
             MkLimits(RMax(e.min.x, size.w), RMax(e.min.y, size.h), e.max.x, e.max.y)
      [] kind = "MaxSize" ->
             MkLimits(e.min.x, e.min.y, RMin(e.max.x, size.w), RMin(e.max.y, size.h))
      [] kind = "MarginElement" ->
             MkLimits(RAdd(e.min.x, MarginWidth(margin)), RAdd(e.min.y, MarginHeight(margin)),
                      RAdd(e.max.x, MarginWidth(margin)), RAdd(e.max.y, MarginHeight(margin)))

\* The subject: a BasicButton, new or disabled.
PxButton(enabled) == [state |-> IF enabled THEN "Normal" ELSE "Disabled",
                      enabled |-> enabled]

\* What a call that reaches the button leaves of it.
PxSubjectAfter(sub, method, bounds, btn, status, flag) ==
    CASE method \in {"click", "handle_click"} ->
             [sub EXCEPT !.state = ButtonAfterClick(sub.state, sub.enabled, bounds, btn)]
      [] method = "cursor" ->
             [sub EXCEPT !.state = ButtonAfterCursor(sub.state, sub.enabled, status)]
      [] method = "enable" ->
             [state |-> ButtonAfterEnable(sub.state, flag), enabled |-> flag]
      [] OTHER -> sub

\* What the button answers to a call that reaches it; false stands for no
\* answer (draw, layout, drag, enable).
PxSubjectRet(sub, method, bounds, btn) ==
    CASE method \in {"click", "handle_click"} -> ButtonHandles(sub.enabled, btn)
      [] method = "hit_test" -> Contains(bounds, btn.pos) /\ sub.enabled
      [] method \in {"wants_control", "is_enabled", "cursor"} -> sub.enabled
      [] OTHER -> FALSE

\* Element's default answer to a call the proxy does not define.
PxDefaultRet(method) == method = "is_enabled"

PxCtxs == {BtnBounds, MkRect(R(0), R(0), R(100), R(100))}

NoPxCall == [method |-> "none", ctx |-> RectZero, reached |-> FALSE,
             seen |-> RectZero, ret |-> FALSE,
             limits |-> MkLimits(R(0), R(0), R(0), R(0))]
NotDrawn == [done |-> FALSE, ctx |-> RectZero, margin |-> MarginZero, seen |-> RectZero]

\* One call of an Element method on the proxy.
PxInvoke(method, ctx, btn, status, flag) ==
    /\ pxCall' = [method |-> method, ctx |-> ctx, limits |-> NoPxCall.limits,
                  reached |-> method \in ProxyForwards(pxKind),
                  seen |-> IF method \in ProxyForwards(pxKind)
                           THEN ProxyBounds(pxKind, method, pxMargin, ctx)
                           ELSE RectZero,
                  ret |-> IF method \in ProxyForwards(pxKind)
                          THEN PxSubjectRet(pxSubject, method,
                                 ProxyBounds(pxKind, method, pxMargin, ctx), btn)
                          ELSE PxDefaultRet(method)]
    /\ pxSubject' = IF method \in ProxyForwards(pxKind)
                    THEN PxSubjectAfter(pxSubject, method,
                           ProxyBounds(pxKind, method, pxMargin, ctx), btn, status, flag)
                    ELSE pxSubject
    /\ pxDrawn' = IF method = "draw" /\ method \in ProxyForwards(pxKind)
                  THEN [done |-> TRUE, ctx |-> ctx, margin |-> pxMargin,
                        seen |-> ProxyBounds(pxKind, method, pxMargin, ctx)]
                  ELSE pxDrawn
    /\ UNCHANGED <<pxKind, pxMargin, pxSize, pxAlign, proxyOthers>>

\* limits(ctx) of the proxy around the button
PxLimits ==
    /\ pxCall' = [NoPxCall EXCEPT !.method = "limits",
                     !.limits = ProxyLimits(pxKind, pxMargin, pxSize, ElemLimits("button"))]
    /\ UNCHANGED <<pxKind, pxMargin, pxSize, pxAlign, pxSubject, pxDrawn, proxyOthers>>

\* MarginElement::set_margin
PxSetMargin(margin) ==
    /\ pxKind = "MarginElement"
    /\ pxMargin' = margin
    /\ pxCall' = [NoPxCall EXCEPT !.method = "set_margin"]
    /\ UNCHANGED <<pxKind, pxSize, pxAlign, pxSubject, pxDrawn, proxyOthers>>

\* The arguments a method does not take.
NoBtn == [down |-> FALSE, button |-> "Left", pos |-> NoPos]

\* click, handle_click, drag
PxMouse(method, ctx, btn) == PxInvoke(method, ctx, btn, "Hovering", FALSE)
\* hit_test
PxHitTest(ctx, p) == PxInvoke("hit_test", ctx, [NoBtn EXCEPT !.pos = p], "Hovering", FALSE)
\* cursor
PxCursor(ctx, status) == PxInvoke("cursor", ctx, NoBtn, status, FALSE)
\* draw, layout, key, text, scroll, handle_scroll
PxPass(method, ctx) == PxInvoke(method, ctx, NoBtn, "Hovering", FALSE)
\* enable
PxEnable(flag) == PxInvoke("enable", RectZero, NoBtn, "Hovering", flag)
\* wants_control, is_enabled, wants_focus
PxAsk(method) == PxInvoke(method, RectZero, NoBtn, "Hovering", FALSE)

ProxyNext ==
    \/ \E method \in {"click", "handle_click", "drag"}, ctx \in PxCtxs,
          btn \in MouseButtons : PxMouse(method, ctx, btn)
    \/ \E ctx \in PxCtxs, p \in BtnPoints : PxHitTest(ctx, p)
    \/ \E ctx \in PxCtxs, status \in CursorTrackings : PxCursor(ctx, status)
    \/ \E method \in {"draw", "layout", "key", "text", "scroll", "handle_scroll"},
          ctx \in PxCtxs :
          PxPass(method, ctx)
    \/ \E flag \in BOOLEAN : PxEnable(flag)
    \/ \E method \in {"wants_control", "is_enabled", "wants_focus"} : PxAsk(method)
    \/ \E margin \in PxMargins : PxSetMargin(margin)
    \/ PxLimits

(***************************************************************************)
(* Specifications: one per component, the other components at rest.        *)
(***************************************************************************)
\* BasicButton::new, with or without an on_click callback
ButtonNew ==
    /\ btnState = "Normal"
    /\ btnEnabled = TRUE
    /\ btnLog = <<>>

\* Composite::new
CompositeNew ==
    /\ children = <<>>
    /\ focus_index = None
    /\ saved_focus = None
    /\ cached_bounds = <<>>
    /\ compLast = [op |-> "new", req |-> "none", pre |-> None,
                   prevOp |-> "none", prevPre |-> None]

\* VTile::new / HTile::new: no children, an empty cache
TileNew ==
    /\ tileChildren = <<>>
    /\ tiles = <<>>
    /\ tileCall = NoCall
    /\ tileLaid = NotLaid
    /\ tileHit = NoHit

\* Grid::new / Grid::from_vec: empty caches
GridNew ==
    /\ col_widths = <<>>
    /\ row_heights = <<>>
    /\ gridCall = NoCall
    /\ gridLaid = NotLaid

(***************************************************************************)
(* A frame: a Composite, VTile or HTile of enabled buttons that is drawn,  *)
(* hit-tested and clicked (element/composite.rs, element/tile.rs). Each    *)
(* traversal is recorded by the context every child was handed and the     *)
(* bounds_of rectangle that let the traversal reach the child.             *)
(***************************************************************************)
MaxFrameChildren == 2
FrameKinds == {"Composite", "VTile", "HTile"}
FrameAxis(kind) == IF kind = "HTile" THEN "H" ELSE "V"

\* support/rect.rs: intersects
Intersects(a, b) ==
    /\ RLt(a.left, b.right) /\ RLt(b.left, a.right)
    /\ RLt(a.top, b.bottom) /\ RLt(b.top, a.bottom)

\* A Context by the fields the traversals read.
FrCtx(bounds, enabled) == [bounds |-> bounds, enabled |-> enabled]

\* Context::with_bounds: the new bounds, enabled copied from the parent
\* context.
WithBounds(ctx, bounds) == [bounds |-> bounds, enabled |-> ctx.enabled]

\* The contexts of a frame: one around the origin, one to the right of and
\* below it; the first also with enabled == false.
FrameCtxs == {FrCtx(MkRect(R(0 - 10), R(0 - 10), R(50), R(50)), TRUE),
              FrCtx(MkRect(R(0 - 10), R(0 - 10), R(50), R(50)), FALSE),
              FrCtx(MkRect(R(0), R(0), R(40), R(30)), TRUE)}
FramePoints == {Pt(0, 0), Pt(20, 25), Pt(20, 45)}
FrameClicks == [down : BOOLEAN, button : {"Left"}, pos : FramePoints]

\* the children as the layout sees them: buttons of fixed size
FrameLayoutKinds(btns) == [i \in 1..Len(btns) |-> "button"]

\* The offset cache a bounds_of call leaves (a plain Composite has none).
FrameTilesAfter(kind, btns, cache, ctx) ==
    IF kind = "Composite" THEN cache
    ELSE TileCacheAfter(FrameLayoutKinds(btns), FrameAxis(kind), cache, ctx.bounds)

\* bounds_of: Composite reads cached_bounds, the tiles their offsets
FrameBoundsOf(kind, cached, cache, ctx, index) ==
    IF kind = "Composite"
    THEN (IF index < Len(cached) THEN cached[index + 1] ELSE RectZero)
    ELSE TileRect(FrameAxis(kind), cache, ctx.bounds, index)

\* The context a traversal hands a child: Composite passes its own context
\* on, the tiles pass ctx.with_bounds(bounds). The container's own enabled
\* flag is read by neither.
FrameChildCtx(kind, ctx, bounds) ==
    IF kind = "Composite" THEN ctx ELSE WithBounds(ctx, bounds)

NotPassed == [seen |-> FALSE, gate |-> RectZero, ctx |-> FrCtx(RectZero, FALSE)]
Passed(gate, ctx) == [seen |-> TRUE, gate |-> gate, ctx |-> ctx]

\* The children (0-based) whose bounds_of rectangle contains p.
FrameInside(kind, cached, cache, ctx, p, n) ==
    {i \in 0..(n - 1) : Contains(FrameBoundsOf(kind, cached, cache, ctx, i), p)}

\* draw: every child whose rectangle intersects the context's bounds
FrameDrawPasses(kind, cached, cache, ctx, n) ==
    [i \in 1..n |->
        LET b == FrameBoundsOf(kind, cached, cache, ctx, i - 1)
        IN  IF Intersects(b, ctx.bounds)
            THEN Passed(b, FrameChildCtx(kind, ctx, b))
            ELSE NotPassed]

\* hit_test: nothing outside the context's bounds; inside, the loop stops
\* at the first child whose rectangle contains p, because an enabled button
\* handed that rectangle answers Some, and hit_element breaks at the first
\* child that contains p when it wants control or control is not asked for.
FrameHitPasses(kind, cached, cache, ctx, p, n) ==
    LET inside == FrameInside(kind, cached, cache, ctx, p, n)
    IN  [i \in 1..n |->
            IF Contains(ctx.bounds, p) /\ inside # {} /\ i - 1 = SetMin(inside)
            THEN LET b == FrameBoundsOf(kind, cached, cache, ctx, i - 1)
                 IN  Passed(b, FrameChildCtx(kind, ctx, b))
            ELSE NotPassed]

\* handle_click: the tiles call the children whose rectangle contains
\* btn.pos until one returns true; Composite keeps Element's default,
\* which calls no child.
FrameClickPasses(kind, cached, cache, ctx, btn, n) ==
    LET inside == FrameInside(kind, cached, cache, ctx, btn.pos, n)
        handling == {i \in inside : ButtonHandles(TRUE, btn)}
    IN  [i \in 1..n |->
            IF /\ kind # "Composite"
               /\ (i - 1) \in inside
               /\ (handling = {} \/ i - 1 <= SetMin(handling))
            THEN LET b == FrameBoundsOf(kind, cached, cache, ctx, i - 1)
                 IN  Passed(b, FrameChildCtx(kind, ctx, b))
            ELSE NotPassed]

\* The child whose handle_click returned true, if any.
FrameHandler(passes, btn) ==
    LET took == {i \in 1..Len(passes) : passes[i].seen /\ ButtonHandles(TRUE, btn)}
    IN  IF took = {} THEN None ELSE SetMin(took) - 1

NotFrameDrawn == [done |-> FALSE, ctx |-> FrCtx(RectZero, FALSE), passes |-> <<>>]
NoFrameCall == [op |-> "none", ctx |-> FrCtx(RectZero, FALSE), pos |-> Pt(0, 0),
                down |-> FALSE, passes |-> <<>>, pre |-> <<>>,
                handler |-> None, afterPress |-> None, enabled |-> TRUE]

\* The child the call before this one pressed, when that call was a press.
FramePressed ==
    IF frCall.op = "handle_click" /\ frCall.down THEN frCall.handler ELSE None

\* push of Composite, VTile and HTile
FramePush ==
    /\ Len(frButtons) < MaxFrameChildren
    /\ frButtons' = Append(frButtons, "Normal")
    /\ frCached' = Append(frCached, RectZero)
    /\ frTiles' = IF frKind = "Composite" THEN frTiles ELSE Append(frTiles, R(0))
    /\ frDrawn' = NotFrameDrawn
    /\ frCall' = [NoFrameCall EXCEPT !.op = "push", !.enabled = frEnabled]
    /\ UNCHANGED <<frKind, frEnabled, frameOthers>>

\* enable: sets the inner composite's flag and nothing else
FrameEnable(flag) ==
    /\ frEnabled' = flag
    /\ frCall' = [NoFrameCall EXCEPT !.op = "enable", !.enabled = flag]
    /\ UNCHANGED <<frKind, frButtons, frCached, frTiles, frDrawn, frameOthers>>

FrameDraw(ctx) ==
    /\ frTiles' = IF Len(frButtons) > 0
                  THEN FrameTilesAfter(frKind, frButtons, frTiles, ctx)
                  ELSE frTiles
    /\ frDrawn' = [done |-> TRUE, ctx |-> ctx,
                   passes |-> FrameDrawPasses(frKind, frCached, frTiles',
                                              ctx, Len(frButtons))]
    /\ frCall' = [NoFrameCall EXCEPT !.op = "draw", !.ctx = ctx,
                    !.passes = frDrawn'.passes, !.pre = frButtons,
                    !.enabled = frEnabled]
    /\ UNCHANGED <<frKind, frEnabled, frButtons, frCached, frameOthers>>

FrameHitTest(ctx, p) ==
    /\ frTiles' = IF Contains(ctx.bounds, p) /\ Len(frButtons) > 0
                  THEN FrameTilesAfter(frKind, frButtons, frTiles, ctx)
                  ELSE frTiles
    /\ frCall' = [NoFrameCall EXCEPT !.op = "hit_test", !.ctx = ctx, !.pos = p,
                    !.passes = FrameHitPasses(frKind, frCached, frTiles',
                                              ctx, p, Len(frButtons)),
                    !.pre = frButtons, !.enabled = frEnabled]
    /\ UNCHANGED <<frKind, frEnabled, frButtons, frCached, frDrawn, frameOthers>>

FrameHandleClick(ctx, btn) ==
    LET cache == IF Len(frButtons) > 0
                 THEN FrameTilesAfter(frKind, frButtons, frTiles, ctx)
                 ELSE frTiles
        passes == FrameClickPasses(frKind, frCached, cache, ctx, btn,
                                   Len(frButtons))
    IN  /\ frTiles' = cache
        /\ frButtons' = [i \in 1..Len(frButtons) |->
                            IF passes[i].seen
                            THEN ButtonAfterClick(frButtons[i], TRUE,
                                                  passes[i].ctx.bounds, btn)
                            ELSE frButtons[i]]
        /\ frCall' = [NoFrameCall EXCEPT !.op = "handle_click", !.ctx = ctx,
                        !.pos = btn.pos, !.down = btn.down, !.passes = passes,
                        !.pre = frButtons, !.handler = FrameHandler(passes, btn),
                        !.afterPress = FramePressed, !.enabled = frEnabled]
        /\ UNCHANGED <<frKind, frEnabled, frCached, frDrawn, frameOthers>>

FrameNext ==
    \/ FramePush
    \/ \E flag \in BOOLEAN : FrameEnable(flag)
    \/ \E ctx \in FrameCtxs : FrameDraw(ctx)
    \/ \E ctx \in FrameCtxs, p \in FramePoints : FrameHitTest(ctx, p)
    \/ \E ctx \in FrameCtxs, btn \in FrameClicks : FrameHandleClick(ctx, btn)

(***************************************************************************)
(* Checkbox and SlideSwitch (element/checkbox.rs, element/switch.rs).      *)
(* SlideSwitch::handle_click is Checkbox::handle_click line by line, with  *)
(* on for checked.                                                         *)
(***************************************************************************)
\* The clicks delivered: either button, inside and outside the bounds.
CheckClicks == [down : BOOLEAN, button : {"Left", "Right"},
                pos : {Pt(20, 15), Pt(40, 15)}]

\* A handle_click that toggles on every release of a pressed widget.
CheckboxTogglesAnywhere(state, enabled, bounds, btn) ==
    IF ButtonHandles(enabled, btn) /\ ~btn.down /\ state = "Pressed" THEN 1 ELSE 0

\* How many times handle_click calls toggle(); on_change runs after each.
CheckboxToggles(state, enabled, bounds, btn) ==
    IF /\ ButtonHandles(enabled, btn)
       /\ ~btn.down
       /\ state = "Pressed" /\ Contains(bounds, btn.pos)
    THEN 1 ELSE 0

\* The state handle_click leaves in self.state.
CheckboxAfterClick(state, enabled, bounds, btn) ==
    IF ~ButtonHandles(enabled, btn) THEN state
    ELSE IF btn.down THEN "Pressed"
    ELSE IF state = "Pressed" /\ Contains(bounds, btn.pos) THEN "Hover"
    ELSE IF Contains(bounds, btn.pos) THEN "Hover" ELSE "Normal"

\* Checkbox::handle_click / SlideSwitch::handle_click in the bounds BtnBounds
CkHandleClick(btn) ==
    LET toggles == CheckboxToggles(ckState, ckEnabled, BtnBounds, btn)
    IN  /\ Len(ckLog) < MaxEvents
        /\ ckState' = CheckboxAfterClick(ckState, ckEnabled, BtnBounds, btn)
        /\ ckChecked' = IF toggles = 1 THEN ~ckChecked ELSE ckChecked
        /\ ckLog' = Append(ckLog,
                       [down |-> btn.down, button |-> btn.button, pos |-> btn.pos,
                        pre |-> ckState, post |-> ckState',
                        was |-> ckChecked, is |-> ckChecked',
                        toggled |-> toggles,
                        fired |-> IF ckOnChange THEN toggles ELSE 0,
                        ret |-> ButtonHandles(ckEnabled, btn)])
        /\ UNCHANGED <<ckEnabled, ckOnChange, checkOthers>>

CheckNext == \E btn \in CheckClicks : CkHandleClick(btn)

(***************************************************************************)
(* handle_click of one BasicButton or Checkbox running on several threads  *)
(* (button.rs:179-210, checkbox.rs:228-255). Element is Send + Sync and    *)
(* handle_click takes &self, so calls may overlap; a thread is atomic      *)
(* while it holds the write guard on state and can be overtaken between    *)
(* drop(state) and the second state.write().                               *)
(***************************************************************************)
MaxThreads == 2
Threads == 1..MaxThreads
RaceWidgets == {"BasicButton", "Checkbox"}
RaceEvents == [down : BOOLEAN, inside : BOOLEAN]

\* The branch that drops the guard to run the callback: a release that
\* finds Pressed (for the checkbox, inside the bounds only).
RaceTakesCallback(widget, state, ev) ==
    /\ ~ev.down
    /\ state = "Pressed"
    /\ (widget = "Checkbox" => ev.inside)

\* The state the first section of handle_click leaves: it writes on a
\* press and on a release outside the callback branch, and writes nothing
\* before drop(state).
RaceFirstWrite(widget, state, ev) ==
    IF ev.down THEN "Pressed"
    ELSE IF RaceTakesCallback(widget, state, ev) THEN state
    ELSE IF ev.inside THEN "Hover" ELSE "Normal"

\* The state the section after the callback writes.
RaceSecondWrite(widget, ev) ==
    IF widget = "Checkbox" THEN "Hover"
    ELSE IF ev.inside THEN "Hover" ELSE "Normal"

\* state.write() up to the end of the guard's scope or drop(state)
RcEnter(t) ==
    /\ rcPc[t] = "start"
    /\ rcState' = RaceFirstWrite(rcWidget, rcState, rcEvent[t])
    /\ rcPc' = [rcPc EXCEPT ![t] = IF RaceTakesCallback(rcWidget, rcState, rcEvent[t])
                                   THEN "callback" ELSE "done"]
    /\ UNCHANGED <<rcWidget, rcChecked, rcFired, rcEvent, raceOthers>>

\* callback() of the button; toggle() and on_change of the checkbox
RcCallback(t) ==
    /\ rcPc[t] = "callback"
    /\ rcChecked' = IF rcWidget = "Checkbox" THEN ~rcChecked ELSE rcChecked
    /\ rcFired' = rcFired + 1
    /\ rcPc' = [rcPc EXCEPT ![t] = "rewrite"]
    /\ UNCHANGED <<rcWidget, rcState, rcEvent, raceOthers>>

\* the second state.write() and the assignment under it
RcRewrite(t) ==
    /\ rcPc[t] = "rewrite"
    /\ rcState' = RaceSecondWrite(rcWidget, rcEvent[t])
    /\ rcPc' = [rcPc EXCEPT ![t] = "done"]
    /\ UNCHANGED <<rcWidget, rcChecked, rcFired, rcEvent, raceOthers>>

RaceNext ==
    \/ \E t \in Threads : RcEnter(t)
    \/ \E t \in Threads : RcCallback(t)
    \/ \E t \in Threads : RcRewrite(t)

(***************************************************************************)
(* List::set_selected and List::remove_item of one List running on         *)
(* several threads (list.rs:160-167, 180-193). Both take &self. A step is  *)
(* what a call does from one lock acquisition to the next; an acquisition  *)
(* waits while another thread holds a conflicting guard, and the guards of *)
(* a call are dropped together when it returns.                            *)
(***************************************************************************)
MaxItems == 2
ListMethods == {"set_selected", "remove_item"}
ListOps == [method : ListMethods, index : 0..MaxItems]

Guard(t, lock, mode) == [thread |-> t, lock |-> lock, mode |-> mode]

\* RwLock: a write guard excludes every other guard, a read guard excludes
\* write guards.
LockFree(t, lock, mode) ==
    \A g \in liHeld :
        (g.thread # t /\ g.lock = lock) => (mode = "read" /\ g.mode = "read")

\* selected.retain(|&i| i != index), then every i > index is decremented
RECURSIVE ListAfterRemove(_, _)
ListAfterRemove(sel, index) ==
    IF sel = <<>> THEN <<>>
    ELSE LET rest == ListAfterRemove(Tail(sel), index)
         IN  IF Head(sel) = index THEN rest
             ELSE IF Head(sel) > index THEN <<Head(sel) - 1>> \o rest
             ELSE <<Head(sel)>> \o rest

\* The acquisition thread t is waiting at, as <<lock, mode>>
ListWants(t) ==
    IF liPc[t] = "start"
    THEN IF liOp[t].method = "set_selected" THEN <<"selected", "write">>
         ELSE <<"items", "write">>
    ELSE IF liPc[t] = "second"
    THEN IF liOp[t].method = "set_selected" THEN <<"items", "read">>
         ELSE <<"selected", "write">>
    ELSE <<>>

ListCanStep(t) ==
    /\ liPc[t] # "done"
    /\ LockFree(t, ListWants(t)[1], ListWants(t)[2])

ListDropAll(t) == {g \in liHeld : g.thread # t}

\* set_selected: selected.write() and selected.clear()
LiSetSelectedFirst(t) ==
    /\ liOp[t].method = "set_selected" /\ liPc[t] = "start"
    /\ ListCanStep(t)
    /\ liHeld' = liHeld \cup {Guard(t, "selected", "write")}
    /\ liSelected' = <<>>
    /\ liPc' = [liPc EXCEPT ![t] = "second"]
    /\ UNCHANGED <<liLen, liOp, listOthers>>

\* set_selected: items.read(), the push if index < items.len(), return
LiSetSelectedSecond(t) ==
    /\ liOp[t].method = "set_selected" /\ liPc[t] = "second"
    /\ ListCanStep(t)
    /\ liSelected' = IF liOp[t].index < liLen
                     THEN Append(liSelected, liOp[t].index) ELSE liSelected
    /\ liHeld' = ListDropAll(t)
    /\ liPc' = [liPc EXCEPT ![t] = "done"]
    /\ UNCHANGED <<liLen, liOp, listOthers>>

\* remove_item: items.write(); items.remove(index) if index < items.len(),
\* otherwise return
LiRemoveItemFirst(t) ==
    /\ liOp[t].method = "remove_item" /\ liPc[t] = "start"
    /\ ListCanStep(t)
    /\ IF liOp[t].index < liLen
       THEN /\ liLen' = liLen - 1
            /\ liHeld' = liHeld \cup {Guard(t, "items", "write")}
            /\ liPc' = [liPc EXCEPT ![t] = "second"]
       ELSE /\ liLen' = liLen
            /\ liHeld' = liHeld
            /\ liPc' = [liPc EXCEPT ![t] = "done"]
    /\ UNCHANGED <<liSelected, liOp, listOthers>>

\* remove_item: selected.write(), the selection update, return
LiRemoveItemSecond(t) ==
    /\ liOp[t].method = "remove_item" /\ liPc[t] = "second"
    /\ ListCanStep(t)
    /\ liSelected' = ListAfterRemove(liSelected, liOp[t].index)
    /\ liHeld' = ListDropAll(t)
    /\ liPc' = [liPc EXCEPT ![t] = "done"]
    /\ UNCHANGED <<liLen, liOp, listOthers>>

ListNext ==
    \/ \E t \in Threads : LiSetSelectedFirst(t)
    \/ \E t \in Threads : LiSetSelectedSecond(t)
    \/ \E t \in Threads : LiRemoveItemFirst(t)
    \/ \E t \in Threads : LiRemoveItemSecond(t)

(***************************************************************************)
(* The text box (text_box.rs). The text is the sequence of its characters; *)
(* a character is known by the number of bytes of its UTF-8 encoding,      *)
(* which is what String::len counts, while chars().count() counts          *)
(* characters. Byte offsets taken from char_indices() are kept as the      *)
(* index of the character they start.                                      *)
(***************************************************************************)
MaxText == 2
TextChars == {"a", "eacute"}
Utf8Len(c) == IF c = "a" THEN 1 ELSE 2
Texts == UNION {[1..n -> TextChars] : n \in 0..MaxText}
\* The cursor position kept in view: the byte length of the longest text
MaxCursor == 2 * MaxText

\* String::len: the length in bytes
RECURSIVE StrLen(_)
StrLen(s) == IF s = <<>> THEN 0 ELSE Utf8Len(Head(s)) + StrLen(Tail(s))

\* chars().count()
CharCount(s) == Len(s)

\* text.char_indices().nth(n).map(|(i, _)| i).unwrap_or(default), as the
\* index of the character at that offset
CharIndex(s, n, default) == IF n < Len(s) THEN n ELSE default

\* text.replace_range(start..end, "") for offsets of characters
RemoveRange(s, start, end) == SubSeq(s, 1, start) \o SubSeq(s, end + 1, Len(s))

TextBoxStates == {"Idle", "Hover", "Focused", "Disabled"}
TBox(text, cursor, selection) ==
    [text |-> text, cursor |-> cursor, selection |-> selection]

IntMin(a, b) == IF a < b THEN a ELSE b
IntMax(a, b) == IF a < b THEN b ELSE a

\* The shared first branch of insert_text, delete_backward and
\* delete_forward: delete the selection
DeleteSelection(b) ==
    LET start == IntMin(b.selection, b.cursor)
        end   == IntMax(b.selection, b.cursor)
    IN  TBox(RemoveRange(b.text, CharIndex(b.text, start, Len(b.text)),
                         CharIndex(b.text, end, Len(b.text))),
             start, None)

\* TextBox::set_text (and the builder TextBox::text, which leaves the
\* selection of new() alone)
SetText(s) == TBox(s, StrLen(s), None)

\* TextBox::insert_text for the one character of a text-input event
InsertText(b, c) ==
    LET d   == IF b.selection # None THEN DeleteSelection(b) ELSE b
        pos == CharIndex(d.text, d.cursor, Len(d.text))
    IN  TBox(SubSeq(d.text, 1, pos) \o <<c>> \o SubSeq(d.text, pos + 1, Len(d.text)),
             d.cursor + 1, d.selection)

\* TextBox::delete_backward
DeleteBackward(b) ==
    IF b.selection # None THEN DeleteSelection(b)
    ELSE IF b.cursor > 0
    THEN TBox(RemoveRange(b.text, CharIndex(b.text, b.cursor - 1, 0),
                          CharIndex(b.text, b.cursor, Len(b.text))),
              b.cursor - 1, None)
    ELSE b

\* TextBox::delete_forward
DeleteForward(b) ==
    IF b.selection # None THEN DeleteSelection(b)
    ELSE IF b.cursor < CharCount(b.text)
    THEN TBox(RemoveRange(b.text, CharIndex(b.text, b.cursor, Len(b.text)),
                          CharIndex(b.text, b.cursor + 1, Len(b.text))),
              b.cursor, None)
    ELSE b

\* The selection a move leaves: anchored at the cursor under shift
MoveSelection(b, select) ==
    IF select THEN (IF b.selection = None THEN b.cursor ELSE b.selection)
    ELSE None

\* TextBox::move_left, move_right, move_home, move_end, select_all
MoveLeft(b, select) ==
    TBox(b.text, IF b.cursor > 0 THEN b.cursor - 1 ELSE b.cursor,
         MoveSelection(b, select))
MoveRight(b, select) ==
    TBox(b.text, IF b.cursor < CharCount(b.text) THEN b.cursor + 1 ELSE b.cursor,
         MoveSelection(b, select))
MoveHome(b, select) == TBox(b.text, 0, MoveSelection(b, select))
MoveEnd(b, select) == TBox(b.text, CharCount(b.text), MoveSelection(b, select))
SelectAll(b) == TBox(b.text, CharCount(b.text), 0)

KeyCodes == {"Left", "Right", "Home", "End", "Backspace", "Delete", "Enter", "A", "Tab"}
KeyActions == {"Press", "Repeat", "Release"}
KeyInfos == [key : KeyCodes, action : KeyActions, shift : BOOLEAN, ctrl : BOOLEAN]

\* The match on k.key in TextBox::key
TextBoxAfterKey(b, k) ==
    CASE k.key = "Left"      -> MoveLeft(b, k.shift)
      [] k.key = "Right"     -> MoveRight(b, k.shift)
      [] k.key = "Home"      -> MoveHome(b, k.shift)
      [] k.key = "End"       -> MoveEnd(b, k.shift)
      [] k.key = "Backspace" -> DeleteBackward(b)
      [] k.key = "Delete"    -> DeleteForward(b)
      [] k.key = "A" /\ k.ctrl -> SelectAll(b)
      [] OTHER               -> b

\* The column a click lands on: round(rel_x / char_width), before the cast
ClickColumns == (0 - 1)..(MaxText + 1)
\* `as usize` of a float saturates below at 0
AsUsize(x) == IF x < 0 THEN 0 ELSE x

TextInputs == TextChars \cup {"control"}

TbBox == TBox(tbText, tbCursor, tbSelection)
TbPut(b) ==
    /\ tbText' = b.text
    /\ tbCursor' = b.cursor
    /\ tbSelection' = b.selection

\* TextBox::set_text
TbSetText(s) ==
    /\ TbPut(SetText(s))
    /\ UNCHANGED <<tbState, tbEnabled, textOthers>>

\* TextBox::handle_click
TbHandleClick(down, button, column) ==
    /\ IF ~tbEnabled \/ button # "Left" \/ ~down
       THEN UNCHANGED <<tbText, tbCursor, tbSelection, tbState>>
       ELSE /\ tbState' = "Focused"
            /\ TbPut(TBox(tbText, IntMin(AsUsize(column), CharCount(tbText)), None))
    /\ UNCHANGED <<tbEnabled, textOthers>>

\* TextBox::key
TbKey(k) ==
    /\ IF ~tbEnabled \/ tbState # "Focused" \/ k.action = "Release"
       THEN UNCHANGED <<tbText, tbCursor, tbSelection>>
       ELSE TbPut(TextBoxAfterKey(TbBox, k))
    /\ UNCHANGED <<tbState, tbEnabled, textOthers>>

\* TextBox::text
TbText(c) ==
    /\ IF ~tbEnabled \/ tbState # "Focused" \/ c = "control"
       THEN UNCHANGED <<tbText, tbCursor, tbSelection>>
       ELSE /\ Len(InsertText(TbBox, c).text) <= MaxText
            /\ InsertText(TbBox, c).cursor <= MaxCursor
            /\ TbPut(InsertText(TbBox, c))
    /\ UNCHANGED <<tbState, tbEnabled, textOthers>>

\* TextBox::enable
TbEnable(flag) ==
    /\ tbEnabled' = flag
    /\ tbState' = IF ~flag THEN "Disabled"
                  ELSE IF tbState = "Disabled" THEN "Idle" ELSE tbState
    /\ UNCHANGED <<tbText, tbCursor, tbSelection, textOthers>>

TextNext ==
    \/ \E s \in Texts : TbSetText(s)
    \/ \E down \in BOOLEAN, button \in {"Left", "Right"}, column \in ClickColumns :
          TbHandleClick(down, button, column)
    \/ \E k \in KeyInfos : TbKey(k)
    \/ \E c \in TextInputs : TbText(c)
    \/ \E flag \in BOOLEAN : TbEnable(flag)

\* no handler running, no guard held
LocksFree ==
    /\ lkOps = <<>>
    /\ lkHeld = {}
    /\ lkBlocked = FALSE
    /\ lkCalls = <<>>

\* the pair of instances as constructed, no event delivered
EntryNew ==
    /\ entViaHandle = entViaClick
    /\ entLog = <<>>

\* the components a specification does not exercise, as constructed
CoreRest ==
    /\ btnOnClick = FALSE
    /\ tileAxis = "V"
    /\ columns = 2
    /\ gridChildren = <<>>
    /\ ButtonNew /\ CompositeNew /\ TileNew /\ GridNew
\* Layer::new and Deck::new
LayerRest == layerChildren = <<>> /\ layerCall = NoLayerCall
DeckRest == deckChildren = <<>> /\ active_index = 0 /\ deckCall = NoDeckCall
LocksRest == lkWidget = "BasicButton" /\ LocksFree
ProxyRest ==
    /\ pxKind = "Proxy" /\ pxMargin = MarginZero /\ pxSize = SizeZero /\ pxAlign = R(0)
    /\ pxSubject = PxButton(TRUE) /\ pxCall = NoPxCall /\ pxDrawn = NotDrawn
LimitsRest ==
    /\ lmKind = "Composite" /\ lmChildren = <<>> /\ lmColumns = 1 /\ lmCall = NoLimits
CheckRest ==
    /\ ckState = "Normal" /\ ckEnabled = TRUE /\ ckChecked = FALSE
    /\ ckOnChange = FALSE /\ ckLog = <<>>
RaceRest ==
    /\ rcWidget = "BasicButton" /\ rcState = "Normal" /\ rcChecked = FALSE
    /\ rcFired = 0 /\ rcEvent = <<>> /\ rcPc = <<>>
ListRest ==
    /\ liLen = 0 /\ liSelected = <<>> /\ liOp = <<>> /\ liPc = <<>> /\ liHeld = {}
TextRest ==
    /\ tbText = <<>> /\ tbCursor = 0 /\ tbSelection = None
    /\ tbState = "Idle" /\ tbEnabled = TRUE
EntryRest == entKind = "BasicButton" /\ entViaClick = EntryElement(TRUE) /\ EntryNew
FrameRest ==
    /\ frKind = "Composite" /\ frEnabled = TRUE /\ frButtons = <<>>
    /\ frCached = <<>> /\ frTiles = <<>>
    /\ frDrawn = NotFrameDrawn /\ frCall = NoFrameCall

InitButton ==
    /\ btnOnClick \in BOOLEAN
    /\ tileAxis = "V"
    /\ columns = 2
    /\ gridChildren = <<>>
    /\ ButtonNew /\ CompositeNew /\ TileNew /\ GridNew
    /\ LocksRest /\ EntryRest /\ LayerRest /\ DeckRest /\ ProxyRest /\ LimitsRest /\ FrameRest /\ CheckRest /\ RaceRest /\ ListRest /\ TextRest

InitFocus ==
    /\ btnOnClick = FALSE
    /\ tileAxis = "V"
    /\ columns = 2
    /\ gridChildren = <<>>
    /\ ButtonNew /\ CompositeNew /\ TileNew /\ GridNew
    /\ LocksRest /\ EntryRest /\ LayerRest /\ DeckRest /\ ProxyRest /\ LimitsRest /\ FrameRest /\ CheckRest /\ RaceRest /\ ListRest /\ TextRest

\* VTile or HTile, built by new or by from_vec with any children
InitTile ==
    /\ btnOnClick = FALSE
    /\ tileAxis \in {"V", "H"}
    /\ \/ /\ tileChildren = <<>>
          /\ tiles = <<>>
       \/ /\ tileChildren \in SeqsUpTo(ElemKinds, MaxTileChildren)
          /\ tiles = Zeros(Len(tileChildren) + 1)
    /\ tileCall = NoCall
    /\ tileLaid = NotLaid
    /\ tileHit = NoHit
    /\ columns = 2
    /\ gridChildren = <<>>
    /\ ButtonNew /\ CompositeNew /\ GridNew
    /\ LocksRest /\ EntryRest /\ LayerRest /\ DeckRest /\ ProxyRest /\ LimitsRest /\ FrameRest /\ CheckRest /\ RaceRest /\ ListRest /\ TextRest

\* VTile or HTile over buttons and empty elements
InitTileHit ==
    /\ btnOnClick = FALSE
    /\ tileAxis \in {"V", "H"}
    /\ \/ /\ tileChildren = <<>>
          /\ tiles = <<>>
       \/ /\ tileChildren \in SeqsUpTo(HitKinds, MaxTileChildren)
          /\ tiles = Zeros(Len(tileChildren) + 1)
    /\ tileCall = NoCall
    /\ tileLaid = NotLaid
    /\ tileHit = NoHit
    /\ columns = 2
    /\ gridChildren = <<>>
    /\ ButtonNew /\ CompositeNew /\ GridNew
    /\ LocksRest /\ EntryRest /\ LayerRest /\ DeckRest /\ ProxyRest /\ LimitsRest /\ FrameRest /\ CheckRest /\ RaceRest /\ ListRest /\ TextRest

\* Any proxy around a button; a MarginElement with any of the margins
InitProxy ==
    /\ pxKind \in ProxyKinds
    /\ pxMargin \in IF pxKind = "MarginElement" THEN PxMargins ELSE {MarginZero}
    /\ pxSize \in IF pxKind \in {"FixedSize", "MinSize", "MaxSize"}
                  THEN PxSizes ELSE {SizeZero}
    /\ pxAlign \in IF pxKind \in {"HAlign", "VAlign"}
                   THEN {AlignClamp(a) : a \in PxAligns} ELSE {R(0)}
    /\ pxSubject \in {PxButton(TRUE), PxButton(FALSE)}
    /\ pxCall = NoPxCall
    /\ pxDrawn = NotDrawn
    /\ CoreRest /\ LocksRest /\ EntryRest /\ LayerRest /\ DeckRest /\ LimitsRest /\ FrameRest /\ CheckRest /\ RaceRest /\ ListRest /\ TextRest

\* Any container, built by new or by from_vec with any children
InitLimits ==
    /\ lmKind \in ContainerKinds
    /\ lmChildren \in SeqsUpTo(ElemKinds, MaxGridChildren)
    /\ lmColumns \in IF lmKind = "Grid" THEN {GridColumns(c) : c \in 0..MaxColumns}
                     ELSE {1}
    /\ lmCall = NoLimits
    /\ CoreRest /\ LocksRest /\ EntryRest /\ LayerRest /\ DeckRest /\ ProxyRest /\ FrameRest /\ CheckRest /\ RaceRest /\ ListRest /\ TextRest

\* Composite::from_vec, VTile::from_vec or HTile::from_vec of fresh buttons
InitFrame ==
    /\ frKind \in FrameKinds
    /\ frEnabled = TRUE
    /\ frButtons \in SeqsUpTo({"Normal"}, MaxFrameChildren)
    /\ frCached = [i \in 1..Len(frButtons) |-> RectZero]
    /\ frTiles = IF frKind = "Composite" THEN <<>> ELSE Zeros(Len(frButtons) + 1)
    /\ frDrawn = NotFrameDrawn
    /\ frCall = NoFrameCall
    /\ CoreRest /\ LocksRest /\ EntryRest /\ LayerRest /\ DeckRest /\ ProxyRest /\ LimitsRest /\ CheckRest /\ RaceRest /\ ListRest /\ TextRest

\* Checkbox::new(..).checked(..) with or without on_change, enabled or not
InitCheck ==
    /\ ckEnabled \in BOOLEAN
    /\ ckState = ButtonAfterEnable("Normal", ckEnabled)
    /\ ckChecked \in BOOLEAN
    /\ ckOnChange \in BOOLEAN
    /\ ckLog = <<>>
    /\ CoreRest /\ LocksRest /\ EntryRest /\ LayerRest /\ DeckRest /\ ProxyRest /\ LimitsRest /\ FrameRest /\ RaceRest /\ ListRest /\ TextRest

\* An enabled widget with its callback, Normal or left Pressed by a press,
\* and one left-button event per thread about to be handled
InitRace ==
    /\ rcWidget \in RaceWidgets
    /\ rcState \in {"Normal", "Pressed"}
    /\ rcChecked = FALSE
    /\ rcFired = 0
    /\ rcEvent \in [Threads -> RaceEvents]
    /\ rcPc = [t \in Threads |-> "start"]
    /\ CoreRest /\ LocksRest /\ EntryRest /\ LayerRest /\ DeckRest /\ ProxyRest /\ LimitsRest /\ FrameRest /\ CheckRest /\ ListRest /\ TextRest

\* A list of up to MaxItems items with nothing or one item selected, no
\* guard held, and one call per thread about to start
InitList ==
    /\ liLen \in 0..MaxItems
    /\ liSelected \in {<<>>} \cup {<<i>> : i \in 0..(liLen - 1)}
    /\ liOp \in [Threads -> ListOps]
    /\ liPc = [t \in Threads |-> "start"]
    /\ liHeld = {}
    /\ CoreRest /\ LocksRest /\ EntryRest /\ LayerRest /\ DeckRest /\ ProxyRest /\ LimitsRest /\ FrameRest /\ CheckRest /\ RaceRest /\ TextRest

\* TextBox::new() or TextBox::new().text(s)
InitText ==
    /\ tbText \in Texts
    /\ tbCursor = SetText(tbText).cursor
    /\ tbSelection = None
    /\ tbState = "Idle"
    /\ tbEnabled = TRUE
    /\ CoreRest /\ LocksRest /\ EntryRest /\ LayerRest /\ DeckRest /\ ProxyRest /\ LimitsRest /\ FrameRest /\ CheckRest /\ RaceRest /\ ListRest

\* Grid::new(columns) or Grid::from_vec(columns, children)
InitGrid ==
    /\ btnOnClick = FALSE
    /\ tileAxis = "V"
    /\ columns \in {GridColumns(c) : c \in 0..MaxColumns}
    /\ gridChildren \in SeqsUpTo(GridKinds, MaxGridChildren)
    /\ ButtonNew /\ CompositeNew /\ TileNew /\ GridNew
    /\ LocksRest /\ EntryRest /\ LayerRest /\ DeckRest /\ ProxyRest /\ LimitsRest /\ FrameRest /\ CheckRest /\ RaceRest /\ ListRest /\ TextRest

\* one of the three widgets, with its callback installed, at rest
InitLocks ==
    /\ lkWidget \in LockWidgets
    /\ LocksFree
    /\ CoreRest /\ EntryRest /\ LayerRest /\ DeckRest /\ ProxyRest /\ LimitsRest /\ FrameRest /\ CheckRest /\ RaceRest /\ ListRest /\ TextRest

\* an element of one of the kinds, enabled or disabled before it is shared
InitEntry ==
    /\ entKind \in EntryKinds
    /\ entViaClick \in {EntryElement(enabled) : enabled \in BOOLEAN}
    /\ EntryNew
    /\ CoreRest /\ LocksRest /\ LayerRest /\ DeckRest /\ ProxyRest /\ LimitsRest /\ FrameRest /\ CheckRest /\ RaceRest /\ ListRest /\ TextRest

\* Layer::new or Layer::from_vec
InitLayer ==
    /\ layerChildren \in SeqsUpTo(LeafKinds, MaxChildren)
    /\ layerCall = NoLayerCall
    /\ CoreRest /\ LocksRest /\ EntryRest /\ DeckRest /\ ProxyRest /\ LimitsRest /\ FrameRest /\ CheckRest /\ RaceRest /\ ListRest /\ TextRest

\* Deck::new or Deck::from_vec
InitDeck ==
    /\ deckChildren \in SeqsUpTo(LeafKinds, MaxChildren - 1)
    /\ active_index = 0
    /\ deckCall = NoDeckCall
    /\ CoreRest /\ LocksRest /\ EntryRest /\ LayerRest /\ ProxyRest /\ LimitsRest /\ FrameRest /\ CheckRest /\ RaceRest /\ ListRest /\ TextRest

SpecButton == InitButton /\ [][ButtonNext]_vars

SpecFocus == InitFocus /\ [][CompNext]_vars

SpecTile == InitTile /\ [][TileNext]_vars

SpecGrid == InitGrid /\ [][GridNext]_vars

SpecLocks == InitLocks /\ [][LockNext]_vars

SpecEntry == InitEntry /\ [][EntryNext]_vars

SpecLayer == InitLayer /\ [][LayerNext]_vars

SpecDeck == InitDeck /\ [][DeckNext]_vars

SpecTileHit == InitTileHit /\ [][TileHitNext]_vars

SpecProxy == InitProxy /\ [][ProxyNext]_vars

SpecLimits == InitLimits /\ [][LimitsNext]_vars

SpecFrame == InitFrame /\ [][FrameNext]_vars

SpecCheck == InitCheck /\ [][CheckNext]_vars

SpecRace == InitRace /\ [][RaceNext]_vars

SpecList == InitList /\ [][ListNext]_vars

SpecText == InitText /\ [][TextNext]_vars

(***************************************************************************)
(* Properties of the button (SpecButton).                                  *)
(***************************************************************************)
IsPress(e) == e.ev = "click" /\ e.down /\ e.button = "Left"
IsRelease(e) == e.ev = "click" /\ ~e.down /\ e.button = "Left"
Inside(e) == Contains(BtnBounds, e.pos)

\* C1: a left press inside the bounds of a Normal button with an on_click
\* callback, directly followed by a left release inside the bounds, takes the
\* button to Pressed and then to Hover, and the callback runs exactly once,
\* on the release.
C1_PressReleaseInside ==
    \A i \in 1..(Len(btnLog) - 1) :
        ( /\ btnOnClick
          /\ IsPress(btnLog[i]) /\ Inside(btnLog[i]) /\ btnLog[i].pre = "Normal"
          /\ IsRelease(btnLog[i + 1]) /\ Inside(btnLog[i + 1]) )
        => /\ btnLog[i].post = "Pressed" /\ btnLog[i].fired = 0
           /\ btnLog[i + 1].post = "Hover" /\ btnLog[i + 1].fired = 1

C1_Witness ==
    /\ btnOnClick
    /\ Len(btnLog) >= 2
    /\ IsPress(btnLog[1]) /\ Inside(btnLog[1]) /\ btnLog[1].pre = "Normal"
    /\ IsRelease(btnLog[2]) /\ Inside(btnLog[2])
    /\ btnLog[1].post = "Pressed" /\ btnLog[2].post = "Hover" /\ btnLog[2].fired = 1

\* C2: when a cursor Leaving event reached a pressed button and the button
\* stayed pressed with no cursor Entering or Hovering event since, a left
\* release outside the bounds takes the button to Normal and does not run the
\* on_click callback.
C2_ReleaseAfterLeaving ==
    \A k \in 1..Len(btnLog) : \A j \in 1..(k - 1) :
        ( /\ btnLog[j].ev = "cursor" /\ btnLog[j].status = "Leaving"
          /\ btnLog[j].pre = "Pressed"
          /\ \A m \in j..(k - 1) :
                /\ btnLog[m].post = "Pressed"
                /\ btnLog[m].ev = "cursor" => btnLog[m].status = "Leaving"
          /\ IsRelease(btnLog[k]) /\ ~Inside(btnLog[k]) )
        => btnLog[k].post = "Normal" /\ btnLog[k].fired = 0

\* C11: whenever handling an event runs the on_click callback, the state a
\* callback reading state() observes is the state the button has once the
\* event is handled.
C11_CallbackSeesPostState ==
    \A i \in 1..Len(btnLog) :
        btnLog[i].fired = 1 => btnLog[i].seen = btnLog[i].post

(***************************************************************************)
(* Properties of the focus protocol (SpecFocus).                           *)
(***************************************************************************)
\* C3: after begin_focus(FromTop) on a composite with a child that wants
\* focus, focus_index is the lowest index of such a child; after
\* begin_focus(FromBottom), the highest; whatever focus_index was before.
C3_BeginFocusDirection ==
    ( /\ compLast.op = "begin_focus"
      /\ compLast.req \in {"FromTop", "FromBottom"}
      /\ \E i \in 1..Len(children) : children[i] )
    => /\ focus_index \in 0..(Len(children) - 1)
       /\ children[focus_index + 1]
       /\ \A j \in 0..(Len(children) - 1) :
             children[j + 1] =>
                IF compLast.req = "FromTop" THEN focus_index <= j ELSE focus_index >= j

\* focusable children at indices {1, 3}, focus was elsewhere: FromBottom gives 3
C3_Witness ==
    /\ compLast.op = "begin_focus" /\ compLast.req = "FromBottom"
    /\ children = <<FALSE, TRUE, FALSE, TRUE>>
    /\ compLast.pre = 1
    /\ focus_index = 3

\* C4: begin_focus(RestorePrevious) directly after end_focus() leaves
\* focus_index at the value it had before the end_focus().
C4_RestorePrevious ==
    ( /\ compLast.op = "begin_focus" /\ compLast.req = "RestorePrevious"
      /\ compLast.prevOp = "end_focus" )
    => focus_index = compLast.prevPre

C4_Witness ==
    /\ compLast.op = "begin_focus" /\ compLast.req = "RestorePrevious"
    /\ compLast.prevOp = "end_focus"
    /\ compLast.prevPre # None
    /\ compLast.pre = None
    /\ focus_index = compLast.prevPre

\* C5: a focus index that is present refers to an existing child that wants
\* focus.
C5_FocusIndexValid ==
    focus_index # None =>
        /\ focus_index < Len(children)
        /\ children[focus_index + 1]

(***************************************************************************)
(* Properties of the tile (SpecTile).                                      *)
(***************************************************************************)
CallAvail == AxisExtent(tileCall.ctx, tileAxis)
TileCount == Len(tileChildren)

\* C6: a bounds_of call on a tile whose offsets were computed for other
\* bounds than the call's returns the rectangle of a layout computed for the
\* call's bounds.
C6_TileFollowsBounds ==
    ( /\ tileCall.op = "bounds_of"
      /\ tileCall.laidBefore.done
      /\ tileCall.laidBefore.ctx # tileCall.ctx )
    => tileCall.ret =
          TileRect(tileAxis, TileComputeLayout(tileChildren, tileAxis, CallAvail),
                   tileCall.ctx, tileCall.index)

\* C8: whenever the offset cache holds a computed layout (its last slot is
\* not the 0 sentinel, or a layout has been stored), it has one more entry
\* than the tile has children.
C8_TileCacheLength ==
    ( \/ tiles # <<>> /\ tiles[Len(tiles)] # R(0)
      \/ tileLaid.done )
    => Len(tiles) = TileCount + 1

\* a tile built by pushes alone, laid out, pushed to, and laid out again
C8_Witness ==
    /\ tiles # <<>> /\ tiles[Len(tiles)] # R(0)
    /\ tileLaid.done /\ tileLaid.count = TileCount
    /\ tileCall.laidBefore.done /\ tileCall.laidBefore.count < TileCount
    /\ Len(tiles) = TileCount + 1

\* The extent the formula of C9 gives child i (1-based here).
FormulaExtent(i) ==
    LET total_stretch == TotalStretch(tileChildren, tileAxis)
        extra == RMax(RSub(CallAvail, TotalMin(tileChildren, tileAxis)), R(0))
        share == IF total_stretch = R(0) THEN R(0)
                 ELSE RMul(extra, RDiv(AxisStretch(tileChildren[i], tileAxis),
                                       total_stretch))
    IN  RMin(RAdd(AxisMin(tileChildren[i], tileAxis), share),
             AxisMax(tileChildren[i], tileAxis))

\* C9: in a layout just computed, the extent of every child along the tile
\* axis is min_i + extra * (stretch_i / total_stretch) clamped to max_i, with
\* extra = max(0, available - sum of minimums) and no share when nothing
\* stretches; minimums 20 and 30 with stretches 1 and 0 in 100 give offsets
\* 0, 70, 100.
C9_TileFormula ==
    ( tileCall.op = "bounds_of" /\ tileCall.computed )
    => /\ \A i \in 1..TileCount : RSub(tiles[i + 1], tiles[i]) = FormulaExtent(i)
       /\ (tileChildren = <<"flex20", "rigid30">> /\ CallAvail = R(100))
             => tiles = <<R(0), R(70), R(100)>>

C9_Witness ==
    /\ tileCall.op = "bounds_of" /\ tileCall.computed
    /\ tileAxis = "V"
    /\ tileChildren = <<"flex20", "rigid30">>
    /\ CallAvail = R(100)
    /\ tiles = <<R(0), R(70), R(100)>>

\* C10 as stated: in a layout just computed with available >= sum(m_i), the
\* child extents add up to min(available, sum(m_i) + extra), extra being
\* available - sum(m_i).
C10_TileConservation ==
    ( /\ tileCall.op = "bounds_of" /\ tileCall.computed
      /\ RLe(TotalMin(tileChildren, tileAxis), CallAvail) )
    => tiles[TileCount + 1] =
          RMin(CallAvail,
               RAdd(TotalMin(tileChildren, tileAxis),
                    RSub(CallAvail, TotalMin(tileChildren, tileAxis))))

Unclamped(i) ==
    LET total_stretch == TotalStretch(tileChildren, tileAxis)
        extra == RSub(CallAvail, TotalMin(tileChildren, tileAxis))
    IN  RLe(RAdd(AxisMin(tileChildren[i], tileAxis),
                 RMul(extra, RDiv(AxisStretch(tileChildren[i], tileAxis), total_stretch))),
            AxisMax(tileChildren[i], tileAxis))

\* C10 amended: in a layout just computed with available >= sum(m_i), the
\* child extents add up to at least sum(m_i) and at most available, and to
\* exactly available when some child stretches and no child's share is cut
\* by its maximum.
C10_TileConservationAmended ==
    ( /\ tileCall.op = "bounds_of" /\ tileCall.computed
      /\ RLe(TotalMin(tileChildren, tileAxis), CallAvail) )
    => /\ RLe(TotalMin(tileChildren, tileAxis), tiles[TileCount + 1])
       /\ RLe(tiles[TileCount + 1], CallAvail)
       /\ ( /\ RLt(R(0), TotalStretch(tileChildren, tileAxis))
            /\ \A i \in 1..TileCount : Unclamped(i) )
          => tiles[TileCount + 1] = CallAvail

C10_Witness ==
    /\ tileCall.op = "bounds_of" /\ tileCall.computed
    /\ TileCount >= 2
    /\ RLt(TotalMin(tileChildren, tileAxis), CallAvail)
    /\ RLt(R(0), TotalStretch(tileChildren, tileAxis))
    /\ \A i \in 1..TileCount : Unclamped(i)
    /\ \E i \in 1..TileCount : AxisStretch(tileChildren[i], tileAxis) = R(0)
    /\ tiles[TileCount + 1] = CallAvail

(***************************************************************************)
(* Properties of the grid (SpecGrid).                                      *)
(***************************************************************************)
\* C7: a bounds_of call on a grid whose caches were computed, for the same
\* bounds, when it had fewer children returns the rectangle of a layout
\* computed for the children it has now.
C7_GridFollowsPush ==
    ( /\ gridCall.op = "bounds_of"
      /\ gridCall.index < Len(gridChildren)
      /\ gridCall.laidBefore.done
      /\ gridCall.laidBefore.ctx = gridCall.ctx
      /\ gridCall.laidBefore.count < Len(gridChildren) )
    => gridCall.ret =
          GridRect(columns,
                   GridColWidths(gridChildren, columns, gridCall.ctx),
                   GridRowHeights(gridChildren, columns, gridCall.ctx),
                   gridCall.ctx, gridCall.index)

(***************************************************************************)
(* Properties of the handlers' locking (SpecLocks).                        *)
(***************************************************************************)
\* C12: a callback runs with none of the widget's guards held by the
\* handler, so every call it makes into a method of the widget is granted
\* its locks and returns; the handling thread never waits for itself.
C12_CallbackOutsideLocks ==
    /\ ~lkBlocked
    /\ \A i \in 1..Len(lkCalls) : lkCalls[i].held = {} /\ lkCalls[i].returned

\* a list whose callbacks wrote the selection and then the items
C12_Witness ==
    /\ lkWidget = "List"
    /\ Len(lkCalls) >= 2
    /\ lkCalls[1].method = "set_selected" /\ lkCalls[1].returned
    /\ lkCalls[2].method = "add_item" /\ lkCalls[2].returned
    /\ LkIdle /\ lkHeld = {}

(***************************************************************************)
(* Properties of the two click entry points (SpecEntry).                   *)
(***************************************************************************)
\* C13: after any sequence of click events, the instance that received them
\* through click and the instance that received them through handle_click
\* are in the same state, with the same value and the same number of
\* callback invocations, and each event got the same return value from both.
C13_EntryPointsAgree ==
    /\ entViaClick = entViaHandle
    /\ \A i \in 1..Len(entLog) : entLog[i].retClick = entLog[i].retHandle

(***************************************************************************)
(* Properties of Layer and Deck (SpecLayer, SpecDeck).                     *)
(***************************************************************************)
LayerClaims(i) == LeafHit(layerChildren[i + 1], BtnBounds, layerCall.p)

\* C14 as stated: a hit test of a layer with children, at a point inside the
\* bounds all of them share, returns the child with the highest index.
C14_LayerTopmost ==
    ( /\ layerCall.op = "hit_test"
      /\ layerChildren # <<>>
      /\ Contains(BtnBounds, layerCall.p) )
    => layerCall.ret = Hit(Len(layerChildren) - 1)

\* C14 amended: a hit test of a layer at a point inside its bounds that some
\* child's own hit_test claims returns the highest-index child that claims
\* it, which is the topmost child whenever every child claims the point.
C14_LayerTopmostClaiming ==
    ( /\ layerCall.op = "hit_test"
      /\ Contains(BtnBounds, layerCall.p)
      /\ \E i \in 0..(Len(layerChildren) - 1) : LayerClaims(i) )
    => /\ layerCall.ret.kind = "child"
       /\ layerCall.ret.index \in 0..(Len(layerChildren) - 1)
       /\ LayerClaims(layerCall.ret.index)
       /\ \A i \in (layerCall.ret.index + 1)..(Len(layerChildren) - 1) : ~LayerClaims(i)
       /\ (\A i \in 0..(Len(layerChildren) - 1) : LayerClaims(i))
             => layerCall.ret = Hit(Len(layerChildren) - 1)

\* three stacked children that all claim the point: the topmost is returned
C14_Witness ==
    /\ layerCall.op = "hit_test"
    /\ layerChildren = <<"button", "textbox", "button">>
    /\ Contains(BtnBounds, layerCall.p)
    /\ layerCall.ret = Hit(2)

\* C15: whatever was pushed and made active, a draw, hit test, wants_focus,
\* wants_control or limits call on a deck calls into no child other than
\* the one at the active index.
C15_DeckOnlyActive ==
    deckCall.op \in DeckQueries => deckCall.consulted \subseteq {active_index}

\* the second of three children was made active and is the one drawn
C15_Witness ==
    /\ deckCall.op = "draw"
    /\ Len(deckChildren) = 3
    /\ active_index = 1
    /\ deckCall.consulted = {1}

\* C16: a click delivered to a deck that has an active child, through
\* click or handle_click, calls the click handler of the active child.
C16_DeckDispatchesClick ==
    ( /\ deckCall.op \in {"click", "handle_click"}
      /\ active_index < Len(deckChildren) )
    => deckCall.consulted = {active_index}

\* C17: a hit test asked for controls (wants_control = true) never yields an
\* element, or a child index, whose wants_control() is false.
C17_ControlHitWantsControl ==
    (tileHit.op \in {"hit_test", "hit_element"} /\ tileHit.control) =>
        CASE tileHit.hit.kind = "child" ->
                 LeafWantsControl(tileChildren[tileHit.hit.index + 1])
          [] tileHit.hit.kind = "self" -> TileWantsControl(tileChildren)
          [] tileHit.hit.kind = "none" -> TRUE

\* C18: the children whose click handler a composite invokes for a click are
\* exactly the child hit-testing returns for the same context and point
\* (none when hit-testing returns no child).
C18_ClickTargetIsHitTarget ==
    tileHit.op = "handle_click" =>
        tileHit.invoked =
            LET hit == TileHitTest(tileChildren, tileAxis, tiles, tileHit.ctx,
                                   tileHit.p, TRUE)
            IN  IF hit.kind = "child" THEN {hit.index} ELSE {}

\* C19: every structural proxy forwards every Element method to its subject,
\* so a call made on the proxy through any entry point reaches the subject.
C19_ProxyForwardsAll ==
    pxCall.method \in ProxyMethods => pxCall.reached

\* C20: the bounds a margin proxy passes to its subject for hit-testing are
\* the inset rectangle, the same it passed for drawing in the same context
\* with the same margin.
C20_MarginHitAsDrawn ==
    ( /\ pxKind = "MarginElement" /\ pxCall.method = "hit_test"
      /\ pxDrawn.done /\ pxDrawn.ctx = pxCall.ctx /\ pxDrawn.margin = pxMargin )
    => ( /\ pxCall.seen = pxDrawn.seen
         /\ pxCall.seen = MkRect(RAdd(pxCall.ctx.left, pxMargin.left),
                                 RAdd(pxCall.ctx.top, pxMargin.top),
                                 RSub(pxCall.ctx.right, pxMargin.right),
                                 RSub(pxCall.ctx.bottom, pxMargin.bottom)) )

\* C20 witness: a margin with four different insets has drawn its subject
\* and is then hit-tested in the same context.
C20_Witness ==
    /\ pxKind = "MarginElement" /\ pxCall.method = "hit_test"
    /\ pxDrawn.done /\ pxDrawn.ctx = pxCall.ctx /\ pxDrawn.margin = pxMargin
    /\ pxMargin = MkMargin(2, 4, 6, 1)
    /\ pxCall.seen # pxCall.ctx

\* C21: the limits of a composite (plain composite, tile, grid, layer) whose
\* children each report min <= max satisfy min.x <= max.x and min.y <= max.y.
C21_CompositeLimitsConsistent ==
    ( /\ lmCall.op = "limits"
      /\ \A i \in 1..Len(lmChildren) :
            /\ RLe(ElemLimits(lmChildren[i]).min.x, ElemLimits(lmChildren[i]).max.x)
            /\ RLe(ElemLimits(lmChildren[i]).min.y, ElemLimits(lmChildren[i]).max.y) )
    => ( /\ RLe(lmCall.limits.min.x, lmCall.limits.max.x)
         /\ RLe(lmCall.limits.min.y, lmCall.limits.max.y) )

\* C21 witness: a column of a button (40 wide) and a narrower capped child
\* (at most 25 wide) has reported its limits: the smallest maximum width is
\* below the largest minimum width.
C21_Witness ==
    /\ lmCall.op = "limits" /\ lmKind = "VTile"
    /\ lmChildren = <<"button", "capped">>
    /\ lmCall.limits.min.x = R(40) /\ lmCall.limits.max.x = R(40)

\* C23: an empty tile or an empty grid reports limits whose min and max are
\* both zero on both axes.
C23_EmptyLimitsZero ==
    ( /\ lmCall.op = "limits" /\ lmKind \in {"VTile", "HTile", "Grid"}
      /\ lmChildren = <<>> )
    => lmCall.limits = MkLimits(R(0), R(0), R(0), R(0))

\* C22: the limits a min-size or max-size proxy reports satisfy min <= max on
\* both axes, for any constraint and any subject with consistent limits.
C22_SizeLimitsConsistent ==
    ( /\ pxCall.method = "limits" /\ pxKind \in {"MinSize", "MaxSize"}
      /\ RLe(ElemLimits("button").min.x, ElemLimits("button").max.x)
      /\ RLe(ElemLimits("button").min.y, ElemLimits("button").max.y) )
    => ( /\ RLe(pxCall.limits.min.x, pxCall.limits.max.x)
         /\ RLe(pxCall.limits.min.y, pxCall.limits.max.y) )

\* C25: when a margin's insets exceed the bounds the proxy is given, the
\* bounds it passes to the subject are the zero rectangle.
C25_MarginExceedingGivesZero ==
    ( /\ pxKind = "MarginElement" /\ pxCall.reached
      /\ pxCall.method \in {"draw", "layout", "hit_test", "click", "handle_click", "drag"}
      /\ \/ RLt(Width(pxCall.ctx), MarginWidth(pxMargin))
         \/ RLt(Height(pxCall.ctx), MarginHeight(pxMargin)) )
    => pxCall.seen = RectZero

\* C30: a margin proxy reports its subject's limits with the total horizontal
\* margin added to min.x and max.x and the total vertical margin added to
\* min.y and max.y.
C30_MarginLimits ==
    (pxKind = "MarginElement" /\ pxCall.method = "limits") =>
        LET e == ElemLimits("button")
        IN  /\ pxCall.limits.min.x = RAdd(e.min.x, RAdd(pxMargin.left, pxMargin.right))
            /\ pxCall.limits.max.x = RAdd(e.max.x, RAdd(pxMargin.left, pxMargin.right))
            /\ pxCall.limits.min.y = RAdd(e.min.y, RAdd(pxMargin.top, pxMargin.bottom))
            /\ pxCall.limits.max.y = RAdd(e.max.y, RAdd(pxMargin.top, pxMargin.bottom))

\* C30 witness: a uniform margin of 10 around a 40 by 20 button has reported
\* limits of 60 by 40.
C30_Witness ==
    /\ pxKind = "MarginElement" /\ pxCall.method = "limits"
    /\ pxMargin = MkMargin(10, 10, 10, 10)
    /\ pxCall.limits = MkLimits(R(60), R(40), R(60), R(40))

\* C24: for every composite kind, bounds_of with an index outside the
\* current child range returns the zero rectangle.
C24_OutOfRangeBoundsZero ==
    (layerCall.op = "bounds_of" /\ layerCall.index >= Len(layerChildren))
        => layerCall.rect = RectZero

\* C26: no click or cursor event moves the button into or out of Disabled;
\* Disabled is entered only by enable(false) and left only by enable(true),
\* which yields Normal.
C26_DisabledOnlyByEnable ==
    \A i \in 1..Len(btnLog) :
        /\ btnLog[i].ev \in {"click", "cursor"} =>
              ((btnLog[i].pre = "Disabled") <=> (btnLog[i].post = "Disabled"))
        /\ (btnLog[i].pre # "Disabled" /\ btnLog[i].post = "Disabled") =>
              (btnLog[i].ev = "enable" /\ ~btnLog[i].flag)
        /\ (btnLog[i].pre = "Disabled" /\ btnLog[i].post # "Disabled") =>
              (btnLog[i].ev = "enable" /\ btnLog[i].flag /\ btnLog[i].post = "Normal")

\* C26 witness: the button was disabled, then pressed with the left mouse
\* button while disabled, then enabled again.
C26_Witness ==
    /\ Len(btnLog) = 3
    /\ btnLog[1].ev = "enable" /\ ~btnLog[1].flag /\ btnLog[1].post = "Disabled"
    /\ btnLog[2].ev = "click" /\ btnLog[2].down /\ btnLog[2].button = "Left"
    /\ btnLog[2].pre = "Disabled"
    /\ btnLog[3].ev = "enable" /\ btnLog[3].flag /\ btnLog[3].post = "Normal"

\* C27: after a cursor Leaving event has been delivered, the button is not
\* in the Hover state.
C27_LeavingNotHover ==
    \A i \in 1..Len(btnLog) :
        (btnLog[i].ev = "cursor" /\ btnLog[i].status = "Leaving")
            => btnLog[i].post # "Hover"

\* C27 witness: the pointer entered the button, which went to Hover, and
\* then left it.
C27_Witness ==
    \E i \in 1..Len(btnLog) :
        /\ btnLog[i].ev = "cursor" /\ btnLog[i].status = "Leaving"
        /\ btnLog[i].pre = "Hover" /\ btnLog[i].post = "Normal"

\* The same element with another minimum width: flex20 and flex50 differ in
\* limits().min.x only.
WithOtherMinWidth(k) ==
    CASE k = "flex20" -> "flex50"
      [] k = "flex50" -> "flex20"
      [] OTHER -> k

ReWidened(chs, S) ==
    [i \in 1..Len(chs) |-> IF (i - 1) \in S THEN WithOtherMinWidth(chs[i]) ELSE chs[i]]

\* C28: the row heights a grid computes are those it would compute if the
\* minimum widths of any children of one column were different.
C28_RowHeightsIgnoreWidths ==
    gridCall.computed =>
        \A c \in 0..(columns - 1) :
            \A S \in SUBSET InCol(gridChildren, columns, c) :
                GridRowHeights(ReWidened(gridChildren, S), columns, gridCall.ctx)
                    = row_heights

\* C28 witness: a layout of two rows was computed, and another minimum width
\* for a child of one column gives other column widths.
C28_Witness ==
    /\ gridCall.computed
    /\ Len(row_heights) = 2
    /\ \E c \in 0..(columns - 1) :
           \E S \in SUBSET InCol(gridChildren, columns, c) :
               GridColWidths(ReWidened(gridChildren, S), columns, gridCall.ctx)
                   # col_widths

SameMinWidth(chs) ==
    \A i, j \in 1..Len(chs) : ElemLimits(chs[i]).min.x = ElemLimits(chs[j]).min.x

SameStretch(chs) ==
    /\ \A i, j \in 1..Len(chs) : ElemStretch(chs[i]).x = ElemStretch(chs[j]).x
    /\ \A i \in 1..Len(chs) : RLt(R(0), ElemStretch(chs[i]).x)

EqualShare(cols, bounds) ==
    RDiv(RSub(Width(bounds), R(h_gap * (cols - 1))), R(cols))

\* C29 as stated: in a grid whose children all have the same minimum width,
\* every column is given (available width - gap * (C - 1)) / C.
C29_EqualColumns ==
    (gridCall.computed /\ SameMinWidth(gridChildren)) =>
        \A c \in 1..columns : col_widths[c] = EqualShare(columns, gridCall.ctx)

\* C29 amended: in a grid with a child in every column, whose children all
\* have the same minimum width and the same positive horizontal stretch,
\* given at least its total minimum width, every column is given
\* (available width - gap * (C - 1)) / C.
C29_EqualColumnsStretching ==
    (/\ gridCall.computed
     /\ SameMinWidth(gridChildren)
     /\ SameStretch(gridChildren)
     /\ Len(gridChildren) >= columns
     /\ RLe(RAdd(RSum(ColMinWidths(gridChildren, columns)), R(h_gap * (columns - 1))),
            Width(gridCall.ctx)))
    => \A c \in 1..columns : col_widths[c] = EqualShare(columns, gridCall.ctx)

\* C29 witness: 2 columns, 4 items of minimum width 50, gap 4, available
\* width 200: each column is 98 wide.
C29_Witness ==
    /\ gridCall.computed
    /\ columns = 2
    /\ gridChildren = <<"flex50", "flex50", "flex50", "flex50">>
    /\ Width(gridCall.ctx) = R(200)
    /\ col_widths = <<R(98), R(98)>>

(***************************************************************************)
(* Properties of a frame (SpecFrame).                                      *)
(***************************************************************************)
\* The last draw and the last hit test or click belong to one frame: same
\* context, and no push since the draw.
SameFrame ==
    /\ frDrawn.done
    /\ frCall.op \in {"hit_test", "handle_click"}
    /\ frCall.ctx = frDrawn.ctx

\* C31: within one frame, the rectangle a child is drawn in and the
\* rectangle it is hit-tested or clicked in are the rectangle bounds_of
\* gives for the child.
C31_OneRectPerFrame ==
    SameFrame =>
        \A i \in 1..Len(frButtons) :
            LET b == FrameBoundsOf(frKind, frCached, frTiles, frCall.ctx, i - 1)
            IN  /\ frDrawn.passes[i].seen => frDrawn.passes[i].ctx.bounds = b
                /\ frCall.passes[i].seen => frCall.passes[i].ctx.bounds = b

\* C32: every context a disabled container hands to a child has
\* enabled == false.
C32_DisabledContext ==
    (frCall.op \in {"draw", "hit_test", "handle_click"} /\ ~frCall.enabled) =>
        \A i \in 1..Len(frCall.passes) :
            frCall.passes[i].seen => ~frCall.passes[i].ctx.enabled

\* C35: after a press that a button of a tile took, directly followed by a
\* release at any position, the button is not Pressed.
C35_ReleaseEndsPress ==
    (/\ frKind \in {"VTile", "HTile"}
     /\ frCall.op = "handle_click" /\ ~frCall.down
     /\ frCall.afterPress # None)
    => frButtons[frCall.afterPress + 1] # "Pressed"

\* The extent and the start of a rectangle on the axis a proxy aligns.
AlignExtent(kind, r) == IF kind = "HAlign" THEN Width(r) ELSE Height(r)
AlignStart(kind, r) == IF kind = "HAlign" THEN r.left ELSE r.top
AlignMax(kind, e) == IF kind = "HAlign" THEN e.max.x ELSE e.max.y

\* C33: the bounds an alignment proxy passes to its subject for drawing and
\* hit-testing are no longer on the aligned axis than the subject can be,
\* start at the alignment fraction of the space left over, and are the
\* granted bounds on the other axis.
C33_AlignedBounds ==
    (/\ pxKind \in {"HAlign", "VAlign"}
     /\ pxCall.method \in {"draw", "hit_test"}
     /\ pxCall.reached)
    => (/\ RLe(AlignExtent(pxKind, pxCall.seen),
               AlignMax(pxKind, ElemLimits("button")))
        /\ AlignStart(pxKind, pxCall.seen) =
              RAdd(AlignStart(pxKind, pxCall.ctx),
                   RMul(pxAlign, RSub(AlignExtent(pxKind, pxCall.ctx),
                                      AlignExtent(pxKind, pxCall.seen))))
        /\ (pxKind = "HAlign" =>
               pxCall.seen.top = pxCall.ctx.top /\ pxCall.seen.bottom = pxCall.ctx.bottom)
        /\ (pxKind = "VAlign" =>
               pxCall.seen.left = pxCall.ctx.left /\ pxCall.seen.right = pxCall.ctx.right))

\* C39: the bounds a margin proxy passes to its subject with a cursor or
\* scroll event, through cursor, scroll or handle_scroll, are the bounds it
\* passed for drawing in the same context with the same margin.
C39_MarginEventsAsDrawn ==
    (/\ pxKind = "MarginElement"
     /\ pxCall.method \in {"cursor", "scroll", "handle_scroll"}
     /\ pxDrawn.done /\ pxDrawn.ctx = pxCall.ctx /\ pxDrawn.margin = pxMargin)
    => (pxCall.reached /\ pxCall.seen = pxDrawn.seen)

\* The children (1-based) whose allocation compute_layout clamps to their
\* maximum in a layout for the extent avail.
TileClamped(chs, axis, avail) ==
    {i \in 1..Len(chs) :
        /\ RLt(R(0), TotalStretch(chs, axis))
        /\ RLt(AxisMax(chs[i], axis),
               TileElemExtentNoClamp(chs[i], axis, TileExtra(chs, axis, avail),
                                     TotalStretch(chs, axis)))}

\* C34: in a layout just computed in which a child's allocation was clamped
\* to its maximum, every other child has the extent the distribution
\* formula gives it (cut at its own maximum): none of the clamped-off space
\* has gone to it.
C34_ClampNotRedistributed ==
    (tileCall.computed /\ Len(tiles) = Len(tileChildren) + 1) =>
        LET avail == AxisExtent(tileCall.ctx, tileAxis)
            extra == TileExtra(tileChildren, tileAxis, avail)
            ts == TotalStretch(tileChildren, tileAxis)
        IN  \A i \in TileClamped(tileChildren, tileAxis, avail) :
                \A j \in 1..Len(tileChildren) :
                    j # i =>
                        RSub(tiles[j + 1], tiles[j]) =
                            RMin(TileElemExtentNoClamp(tileChildren[j], tileAxis, extra, ts),
                                 AxisMax(tileChildren[j], tileAxis))

\* C34 witness: a capped child (10 to 25, stretch 1) before a flexible one
\* (from 20, stretch 1) in an extent of 100: the capped child is cut from 45
\* to 25, the flexible one gets its 55, and 20 stay unused.
C34_Witness ==
    /\ tileCall.computed
    /\ tileChildren = <<"capped", "flex20">>
    /\ AxisExtent(tileCall.ctx, tileAxis) = R(100)
    /\ tiles = <<R(0), R(25), R(80)>>

(***************************************************************************)
(* Properties of the checkbox and the slide switch (SpecCheck).            *)
(***************************************************************************)
\* The last left-button event before event i, 0 when there is none.
LastLeftBefore(i) ==
    LET S == {j \in 1..(i - 1) : ckLog[j].button = "Left"}
    IN  IF S = {} THEN 0 ELSE SetMax(S)

\* Event i is a left release inside the bounds of an enabled widget whose
\* last left-button event before it was a press.
ReleaseEndsPress(i) ==
    /\ ckEnabled
    /\ ckLog[i].button = "Left" /\ ~ckLog[i].down
    /\ Contains(BtnBounds, ckLog[i].pos)
    /\ LastLeftBefore(i) # 0
    /\ ckLog[LastLeftBefore(i)].down

\* C36: over any sequence of click events, the value of an enabled checkbox
\* or switch flips once, and on_change runs once, at each left release
\* inside the bounds that follows a left press, and at no other event.
C36_ToggleOncePerClick ==
    \A i \in 1..Len(ckLog) :
        /\ ckLog[i].toggled = (IF ReleaseEndsPress(i) THEN 1 ELSE 0)
        /\ (ckLog[i].is # ckLog[i].was) <=> ReleaseEndsPress(i)
        /\ ckOnChange => ckLog[i].fired = ckLog[i].toggled

\* C36 witness: a press, a release inside the bounds that toggles and runs
\* on_change, then a second release, which does neither.
C36_Witness ==
    /\ ckOnChange
    /\ Len(ckLog) = 3
    /\ ckLog[1].down /\ ckLog[1].button = "Left"
    /\ ~ckLog[2].down /\ ckLog[2].button = "Left" /\ Contains(BtnBounds, ckLog[2].pos)
    /\ ckLog[2].toggled = 1 /\ ckLog[2].fired = 1
    /\ ~ckLog[3].down /\ ckLog[3].button = "Left" /\ ckLog[3].toggled = 0

(***************************************************************************)
(* Properties of concurrent clicks (SpecRace).                             *)
(***************************************************************************)
\* C37: when the events handled concurrently are all releases, and so
\* belong to at most one press, the callback (or toggle) runs at most once.
C37_OneCallbackPerPress ==
    (\A t \in Threads : ~rcEvent[t].down) => rcFired <= 1

(***************************************************************************)
(* Properties of concurrent list calls (SpecList).                         *)
(***************************************************************************)
\* C38: concurrent set_selected and remove_item calls on one list cannot
\* deadlock: while a call has not returned, some call can take its next
\* step.
C38_NoDeadlock ==
    (\E t \in Threads : liPc[t] # "done") => (\E t \in Threads : ListCanStep(t))

(***************************************************************************)
(* Properties of the text box (SpecText).                                  *)
(***************************************************************************)
\* C40: after any sequence of text(), set_text, clicks, key events and
\* text-input events the cursor position is at most the number of
\* characters of the text.
C40_CursorWithinText == tbCursor <= CharCount(tbText)

====
